---- MODULE Spec2Model ----
(***************************************************************************)
(* Model of the Celeste auto-splitter plugin (auto-splitter/src/lib.rs)    *)
(* together with the process handle of livesplit-wrapper/src/lib.rs.       *)
(*                                                                         *)
(* The host calls `update` once per tick.  One call is one step of the     *)
(* model: Tick when the splitter holds an adapter, Reattach when it does   *)
(* not.  What the attached process's memory shows during a call is the     *)
(* input of the step.                                                      *)
(*                                                                         *)
(* Option<T> is modelled as a sequence: None is << >>, Some(x) is <<x>>.   *)
(* The Info record carries the fields of the snapshot that `update` reads; *)
(* fields that are only printed by debug_state are left out.               *)
(***************************************************************************)
EXTENDS Integers, Sequences, FiniteSets, TLC

\* ------------------------------------------------------------------------
\* Bounds of the model
\* ------------------------------------------------------------------------

\* longest run of consecutive absent snapshots explored by Spec
MaxAbsentRun == 2

\* longest run of consecutive absent snapshots explored by SpecReconnect
MaxAbsentLong == 101

\* number of nonzero tokens the host hands out
MaxAttach == 2

\* ------------------------------------------------------------------------
\* Program constants
\* ------------------------------------------------------------------------

\* failed_reads value at which the adapter is dropped
DisconnectThreshold == 100

\* number of entries the Areas list must have
AreasCount == 11

\* checkpoint count that ends the Summit2500M split
SummitCheckpoint == 6

\* file_time is in units of 100 ns; 10000 of them make a millisecond
TicksPerMilli == 10000

\* the reset trigger needs file_time below this many milliseconds
ResetWindowMs == 1000

None == << >>

Some(x) == << x >>

\* ------------------------------------------------------------------------
\* Split (enum and next)
\* ------------------------------------------------------------------------

SplitOrder ==
  << "Start", "Prologue", "City", "Site", "Resort", "Ridge", "Cassette",
     "Temple", "Reflection", "Summit2500M", "Summit", "End" >>

Split == { SplitOrder[i] : i \in 1..Len(SplitOrder) }

SplitPos(s) == CHOOSE i \in 1..Len(SplitOrder) : SplitOrder[i] = s

\* Split::next with the Temple arm pointing one split back
SplitNextTempleBack(s) ==
  CASE s = "Start" -> "Prologue"
    [] s = "Prologue" -> "City"
    [] s = "City" -> "Site"
    [] s = "Site" -> "Resort"
    [] s = "Resort" -> "Ridge"
    [] s = "Ridge" -> "Cassette"
    [] s = "Cassette" -> "Temple"
    [] s = "Temple" -> "Cassette"
    [] s = "Reflection" -> "Summit2500M"
    [] s = "Summit2500M" -> "Summit"
    [] s = "Summit" -> "End"
    [] s = "End" -> "End"

SplitNext(s) ==
  CASE s = "Start" -> "Prologue"
    [] s = "Prologue" -> "City"
    [] s = "City" -> "Site"
    [] s = "Site" -> "Resort"
    [] s = "Resort" -> "Ridge"
    [] s = "Ridge" -> "Cassette"
    [] s = "Cassette" -> "Temple"
    [] s = "Temple" -> "Reflection"
    [] s = "Reflection" -> "Summit2500M"
    [] s = "Summit2500M" -> "Summit"
    [] s = "Summit" -> "End"
    [] s = "End" -> "End"

\* ------------------------------------------------------------------------
\* Info
\* ------------------------------------------------------------------------

\* Info::file_time rounded to the nearest millisecond
FileTimeMsRounded(info) == (info.file_time + 5000) \div TicksPerMilli

\* Info::file_time in milliseconds.  The i64 is cast to u64 before the
\* division; the game's file timer is never negative, so the cast keeps it.
FileTimeMs(info) == info.file_time \div TicksPerMilli

\* ------------------------------------------------------------------------
\* Timer commands and log lines emitted through the host
\* ------------------------------------------------------------------------

Cmd(op) == [op |-> op, arg |-> 0]

CmdArg(op, arg) == [op |-> op, arg |-> arg]

VARIABLES
  state,          \* Option<Celeste>: [proc, prev_save, mode_stats]
  old_info,       \* Option<Info>
  was_connected,
  current_split,
  failed_reads,
  cmds,           \* timer commands and variables emitted by the last update
  logs,           \* log lines emitted by the last update
  snap,           \* what Celeste::update returned in the last update
  attached,       \* number of nonzero tokens handed out by attach so far
  detached,       \* tokens passed to detach so far, in order
  crashed,        \* the plugin has panicked
  absentRun,      \* consecutive updates with an adapter and no snapshot
  mem,            \* memory of the attached process: [words, strs]
  call,           \* the last call into the reflection layer
  ret             \* what that call did: [kind, val]

vars ==
  << state, old_info, was_connected, current_split, failed_reads, cmds, logs,
     snap, attached, detached, crashed, absentRun, mem, call, ret >>

\* ------------------------------------------------------------------------
\* process.rs: the reflection layer over raw memory
\* ------------------------------------------------------------------------

\* offsets into the class cache, MonoClass, MonoClassField and the vtable
CacheSizeOffset == 24

CacheTableOffset == 32

ClassKindOffset == 36

ClassNameOffset == 64

ClassNextOffset == 248

ClassVtableSizeOffset == 84

ClassRuntimeInfoOffset == 200

ClassGenericOffset == 224

ClassFieldCountOffset == 240

ClassFieldsOffset == 144

VtableDataOffset == 64

FieldSize == 32

FieldNameOffset == 8

FieldOffsetOffset == 24

PointerSize == 8

\* class_kind keeps the low three bits
KindModulus == 8

\* MonoKind
Def == 1

Gtd == 2

Ginst == 3

Array == 5

\* longest bucket chain and deepest generic instantiation followed
MaxChain == 3

MaxGeneric == 2

\* results of a call: Some(val), None, a panic, or a loop that has not ended
\* within the bound
RSome(v) == [kind |-> "some", val |-> v]

RNone == [kind |-> "none", val |-> 0]

RPanic == [kind |-> "panic", val |-> 0]

RDiverge == [kind |-> "diverge", val |-> 0]

\* the bucket chain has ended without a match (class == 0 at line 44)
REnd == [kind |-> "end", val |-> 0]

\* no process is attached: nothing is mapped
NoProcess == [words |-> << >>, strs |-> << >>, bytes |-> << >>]

NoCall == [fn |-> "none", class |-> 0, name |-> ""]

NoRet == [kind |-> "idle", val |-> 0]

\* the words of one MonoClass
MkClass(class, kind, name_at, next, fields, fields_at, vsize, rinfo, generic) ==
  (class + ClassKindOffset :> kind)
    @@ (class + ClassNameOffset :> name_at)
    @@ (class + ClassNextOffset :> next)
    @@ (class + ClassFieldCountOffset :> fields)
    @@ (class + ClassFieldsOffset :> fields_at)
    @@ (class + ClassVtableSizeOffset :> vsize)
    @@ (class + ClassRuntimeInfoOffset :> rinfo)
    @@ (class + ClassGenericOffset :> generic)

\* the words of entry i of a MonoClassField array
MkField(fields_at, i, name_at, offset) ==
  (fields_at + FieldSize * i :> 0)
    @@ (fields_at + FieldSize * i + FieldNameOffset :> name_at)
    @@ (fields_at + FieldSize * i + 16 :> 0)
    @@ (fields_at + FieldSize * i + FieldOffsetOffset :> offset)

\* Process::read of an integer: absent when the address is not mapped
Read(m, addr) ==
  IF addr \in DOMAIN m.words THEN Some(m.words[addr]) ELSE None

\* read_cstr: absent when the address is not mapped
ReadCstr(m, addr) ==
  IF addr \in DOMAIN m.strs THEN Some(m.strs[addr]) ELSE None

ClassName(m, class) ==
  LET p == Read(m, class + ClassNameOffset) IN
  IF p = None THEN None ELSE ReadCstr(m, p[1])

ClassKind(m, class) ==
  LET b == Read(m, class + ClassKindOffset) IN
  IF b = None THEN None ELSE Some(b[1] % KindModulus)

\* the while loop of lookup_class going on with the same class instead of
\* its successor
RECURSIVE WalkChainStuck(_, _, _, _)
WalkChainStuck(m, class, name, fuel) ==
  IF class = 0 THEN REnd
  ELSE IF fuel = 0 THEN RDiverge
  ELSE
    LET nm == ClassName(m, class) IN
    IF nm = None THEN RNone
    ELSE IF nm[1] = name THEN RSome(class)
    ELSE
      LET nx == Read(m, class + ClassNextOffset) IN
      IF nx = None THEN RNone ELSE WalkChainStuck(m, class, name, fuel - 1)

\* the while loop of lookup_class over one bucket chain
RECURSIVE WalkChain(_, _, _, _)
WalkChain(m, class, name, fuel) ==
  IF class = 0 THEN REnd
  ELSE IF fuel = 0 THEN RDiverge
  ELSE
    LET nm == ClassName(m, class) IN
    IF nm = None THEN RNone
    ELSE IF nm[1] = name THEN RSome(class)
    ELSE
      LET nx == Read(m, class + ClassNextOffset) IN
      IF nx = None THEN RNone ELSE WalkChain(m, nx[1], name, fuel - 1)

\* the for loop of lookup_class from bucket on, and the panic behind it
RECURSIVE WalkBuckets(_, _, _, _, _)
WalkBuckets(m, cache_table, table_size, bucket, name) ==
  IF bucket >= table_size THEN RPanic
  ELSE
    LET head == Read(m, cache_table + PointerSize * bucket) IN
    IF head = None THEN RNone
    ELSE
      LET r == WalkChain(m, head[1], name, MaxChain) IN
      IF r.kind = "end"
        THEN WalkBuckets(m, cache_table, table_size, bucket + 1, name)
        ELSE r

LookupClass(m, cache, name) ==
  LET cache_table == Read(m, cache + CacheTableOffset)
      table_size == Read(m, cache + CacheSizeOffset)
  IN
  IF cache_table = None \/ table_size = None THEN RNone
  ELSE WalkBuckets(m, cache_table[1], table_size[1], 0, name)

\* Process::read::<u64> as two 32-bit halves, low half first (an image
\* without a word at addr + 4 holds zero bytes there)
ReadHalves(m, addr) ==
  IF addr \notin DOMAIN m.words THEN None
  ELSE Some([lo |-> m.words[addr],
             hi |-> IF addr + 4 \in DOMAIN m.words THEN m.words[addr + 4]
                    ELSE 0])

\* i > max for an index below 2^32 and a 64-bit max given by its halves
Above(i, max) == max.hi = 0 /\ i > max.lo

\* the scan of the domains with the last slot left out
RECURSIVE WalkDomainsExclusive(_, _, _, _, _)
WalkDomainsExclusive(m, runtime_info, max_domains, vtable_size, i) ==
  IF max_domains.hi = 0 /\ i >= max_domains.lo THEN RPanic
  ELSE
    LET vtable == Read(m, runtime_info + PointerSize + PointerSize * i) IN
    IF vtable = None THEN RNone
    ELSE IF vtable[1] /= 0
      THEN LET data == Read(m, vtable[1] + VtableDataOffset
                                 + PointerSize * vtable_size) IN
           IF data = None THEN RNone ELSE RSome(data[1])
      ELSE WalkDomainsExclusive(m, runtime_info, max_domains, vtable_size,
                                i + 1)

\* the for loop of class_static_fields from domain i on, and the panic
\* behind it
RECURSIVE WalkDomains(_, _, _, _, _)
WalkDomains(m, runtime_info, max_domains, vtable_size, i) ==
  IF Above(i, max_domains) THEN RPanic
  ELSE
    LET vtable == Read(m, runtime_info + PointerSize + PointerSize * i) IN
    IF vtable = None THEN RNone
    ELSE IF vtable[1] /= 0
      THEN LET data == Read(m, vtable[1] + VtableDataOffset
                                 + PointerSize * vtable_size) IN
           IF data = None THEN RNone ELSE RSome(data[1])
      ELSE WalkDomains(m, runtime_info, max_domains, vtable_size, i + 1)

ClassStaticFields(m, class) ==
  LET vtable_size == Read(m, class + ClassVtableSizeOffset)
      runtime_info == Read(m, class + ClassRuntimeInfoOffset)
  IN
  IF vtable_size = None \/ runtime_info = None THEN RNone
  ELSE
    LET max_domains == ReadHalves(m, runtime_info[1]) IN
    IF max_domains = None THEN RNone
    ELSE WalkDomains(m, runtime_info[1], max_domains[1], vtable_size[1], 0)

\* read_into_buf over the num_fields entries at fields_addr
FieldsReadable(m, fields_addr, num_fields) ==
  \A i \in 0..(num_fields - 1) :
    /\ fields_addr + FieldSize * i + FieldNameOffset \in DOMAIN m.words
    /\ fields_addr + FieldSize * i + FieldOffsetOffset \in DOMAIN m.words

\* the for loop of class_field_offset from field i on, and the panic behind
\* it
RECURSIVE WalkFields(_, _, _, _, _)
WalkFields(m, fields_addr, num_fields, i, name) ==
  IF i >= num_fields THEN RPanic
  ELSE
    LET entry == fields_addr + FieldSize * i
        temp == ReadCstr(m, m.words[entry + FieldNameOffset])
    IN
    IF temp = None THEN RNone
    ELSE IF temp[1] = name THEN RSome(m.words[entry + FieldOffsetOffset])
    ELSE WalkFields(m, fields_addr, num_fields, i + 1, name)

\* class_field_offset that looks into the fields of the instantiation
\* itself before it follows the generic definition
RECURSIVE ClassFieldOffsetOwnFields(_, _, _, _)
ClassFieldOffsetOwnFields(m, class, name, fuel) ==
  LET kind == ClassKind(m, class)
      num_fields == Read(m, class + ClassFieldCountOffset)
      fields_addr == Read(m, class + ClassFieldsOffset)
      own == IF num_fields = None \/ fields_addr = None THEN RNone
             ELSE IF ~FieldsReadable(m, fields_addr[1], num_fields[1])
               THEN RNone
             ELSE WalkFields(m, fields_addr[1], num_fields[1], 0, name)
  IN
  IF kind = None THEN RNone
  ELSE IF kind[1] = Ginst
    THEN (IF own.kind = "some" THEN own
          ELSE IF fuel = 0 THEN RDiverge
          ELSE LET generic == Read(m, class + ClassGenericOffset) IN
               IF generic = None THEN RNone
               ELSE LET container == Read(m, generic[1]) IN
                    IF container = None THEN RNone
                    ELSE ClassFieldOffsetOwnFields(m, container[1], name,
                                                   fuel - 1))
  ELSE IF kind[1] \notin {Def, Gtd} THEN RPanic
  ELSE own

RECURSIVE ClassFieldOffset(_, _, _, _)
ClassFieldOffset(m, class, name, fuel) ==
  LET kind == ClassKind(m, class) IN
  IF kind = None THEN RNone
  ELSE IF kind[1] = Ginst
    THEN (IF fuel = 0 THEN RDiverge
          ELSE LET generic == Read(m, class + ClassGenericOffset) IN
               IF generic = None THEN RNone
               ELSE LET container == Read(m, generic[1]) IN
                    IF container = None THEN RNone
                    ELSE ClassFieldOffset(m, container[1], name, fuel - 1))
  ELSE IF kind[1] \notin {Def, Gtd} THEN RPanic
  ELSE
    LET num_fields == Read(m, class + ClassFieldCountOffset)
        fields_addr == Read(m, class + ClassFieldsOffset)
    IN
    IF num_fields = None \/ fields_addr = None THEN RNone
    ELSE IF ~FieldsReadable(m, fields_addr[1], num_fields[1]) THEN RNone
    ELSE WalkFields(m, fields_addr[1], num_fields[1], 0, name)

\* the tag bit kept
ClearTagKept(instance) == instance

\* instance & !1
ClearTag(instance) == instance - (instance % 2)

InstanceClass(m, instance) ==
  LET vtable == Read(m, ClearTag(instance)) IN
  IF vtable = None THEN RNone
  ELSE LET class == Read(m, vtable[1]) IN
       IF class = None THEN RNone ELSE RSome(class[1])

\* the addresses instance_class reads, in order
InstanceClassReads(m, instance) ==
  LET vtable == Read(m, ClearTag(instance)) IN
  IF vtable = None THEN << ClearTag(instance) >>
  ELSE << ClearTag(instance), vtable[1] >>

InstanceField(m, instance, name) ==
  LET class == InstanceClass(m, instance) IN
  IF class.kind /= "some" THEN class
  ELSE
    LET field_offset == ClassFieldOffset(m, class.val, name, MaxGeneric) IN
    IF field_offset.kind /= "some" THEN field_offset
    ELSE LET v == Read(m, instance + field_offset.val) IN
         IF v = None THEN RNone ELSE RSome(v[1])

StaticField(m, class, name) ==
  LET static_data == ClassStaticFields(m, class) IN
  IF static_data.kind /= "some" THEN static_data
  ELSE
    LET field_offset == ClassFieldOffset(m, class, name, MaxGeneric) IN
    IF field_offset.kind /= "some" THEN field_offset
    ELSE LET v == Read(m, static_data.val + field_offset.val) IN
         IF v = None THEN RNone ELSE RSome(v[1])

\* the payload behind the object header of the AutoSplitterInfo object
InfoHeaderSize == 16

LocateSplitterInfo(m, instance) ==
  LET splitter_instance == InstanceField(m, instance, "AutoSplitterInfo") IN
  IF splitter_instance.kind /= "some" THEN splitter_instance
  ELSE RSome(splitter_instance.val + InfoHeaderSize)

\* Process::read_into_buf of len bytes: absent unless all are mapped
ReadIntoBuf(m, addr, len) ==
  IF \A i \in 0..(len - 1) : addr + i \in DOMAIN m.bytes
    THEN Some([i \in 1..len |-> m.bytes[addr + i - 1]])
    ELSE None

\* the buffer taken as u16 values with the high byte first
Utf16UnitsBigEndian(buf) ==
  [i \in 1..(Len(buf) \div 2) |-> 256 * buf[2 * i - 1] + buf[2 * i]]

\* the buffer reinterpreted as u16 values (wasm32 is little-endian)
Utf16Units(buf) ==
  [i \in 1..(Len(buf) \div 2) |-> buf[2 * i - 1] + 256 * buf[2 * i]]

IsHighSurrogate(u) == u >= 55296 /\ u <= 56319

IsLowSurrogate(u) == u >= 56320 /\ u <= 57343

\* U+FFFD
ReplacementChar == 65533

\* String::from_utf16_lossy: the chars of the string, unpaired surrogates
\* replaced
RECURSIVE DecodeUtf16Lossy(_)
DecodeUtf16Lossy(units) ==
  IF units = << >> THEN << >>
  ELSE
    LET u == Head(units) IN
    IF ~IsHighSurrogate(u) /\ ~IsLowSurrogate(u)
      THEN << u >> \o DecodeUtf16Lossy(Tail(units))
    ELSE IF IsHighSurrogate(u) /\ Len(units) >= 2 /\ IsLowSurrogate(units[2])
      THEN << 65536 + (u - 55296) * 1024 + (units[2] - 56320) >>
             \o DecodeUtf16Lossy(Tail(Tail(units)))
    ELSE << ReplacementChar >> \o DecodeUtf16Lossy(Tail(units))

\* the result carries the chars and the number of bytes read for them
ReadBoxedString(m, instance) ==
  LET class == InstanceClass(m, instance) IN
  IF class.kind /= "some" THEN class
  ELSE
    LET data_offset == ClassFieldOffset(m, class.val, "m_firstChar", MaxGeneric)
    IN
    IF data_offset.kind /= "some" THEN data_offset
    ELSE
      LET size_offset ==
            ClassFieldOffset(m, class.val, "m_stringLength", MaxGeneric)
      IN
      IF size_offset.kind /= "some" THEN size_offset
      ELSE
        LET size == Read(m, instance + size_offset.val) IN
        IF size = None THEN RNone
        ELSE
          LET buf == ReadIntoBuf(m, instance + data_offset.val, size[1] * 2)
          IN
          IF buf = None THEN RNone
          ELSE [kind |-> "some",
                val |-> DecodeUtf16Lossy(Utf16Units(buf[1])),
                len |-> Len(buf[1])]

\* ------------------------------------------------------------------------
\* Celeste::update: the per-tick snapshot
\* ------------------------------------------------------------------------

\* whether the snapshot reads memory after mode_stats has been settled
LateReads(m, ms) ==
  \/ m.save /= 0 /\ ms /= 0
  \/ m.chapter /= -1 /\ m.chapter_started /\ ~m.chapter_complete

\* the tick enters the resolution of mode_stats (lines 136..151)
Resolves(s, m) == m.save /= 0 /\ m.chapter /= -1 /\ s.mode_stats = 0

\* mode_stats with the test of the chapter left out
ResolveModeStatsAnyChapter(s, m) ==
  IF s.mode_stats = 0
    THEN (IF m.areas_size = AreasCount /\ m.items /= 0 THEN m.mode_obj ELSE 0)
    ELSE s.mode_stats

\* mode_stats once lines 134..152 have run (save_addr nonzero and unchanged)
ResolveModeStats(s, m) ==
  IF m.chapter = -1 THEN 0
  ELSE IF s.mode_stats = 0
    THEN (IF m.areas_size = AreasCount /\ m.items /= 0 THEN m.mode_obj ELSE 0)
    ELSE s.mode_stats

\* the _count of the Checkpoints of the mode-stats object at ms: count for
\* the object of the chapter and mode now shown, other_count for any other
CountThrough(m, ms) == IF ms = m.mode_obj THEN m.count ELSE m.other_count

MakeInfo(m, deaths, checkpoint) ==
  [ chapter |-> m.chapter,
    room |-> IF m.level /= 0 THEN m.level_name ELSE "",
    chapter_started |-> m.chapter_started,
    chapter_complete |-> m.chapter_complete,
    file_time |-> m.file_time,
    file_cassettes |-> m.file_cassettes,
    file_hearts |-> m.file_hearts,
    death_count |-> deaths,
    checkpoint |-> checkpoint ]

\* Celeste::update with a save swap that keeps the mode_stats cursor
CelesteUpdateKeepStats(s, m) ==
  LET keep(res) == [res |-> res, info |-> None, prev_save |-> s.prev_save,
                    mode_stats |-> s.mode_stats, changed_saves |-> FALSE]
  IN
  IF m.fault = "read_early" THEN keep("none")
  ELSE IF m.fault = "panic" THEN keep("panic")
  ELSE IF m.save /= 0 /\ m.save /= s.prev_save
    THEN [res |-> "none", info |-> None, prev_save |-> m.save,
          mode_stats |-> s.mode_stats, changed_saves |-> TRUE]
  ELSE IF m.fault = "read_deaths" /\ m.save /= 0 THEN keep("none")
  ELSE IF m.fault = "read_areas" /\ Resolves(s, m) THEN keep("none")
  ELSE
    LET ms == IF m.save /= 0 THEN ResolveModeStats(s, m) ELSE s.mode_stats
        deaths == IF m.save /= 0 THEN m.deaths ELSE 0
        checkpoint == IF m.save /= 0 /\ ms /= 0 THEN CountThrough(m, ms) ELSE 0
    IN
    IF m.fault = "read_late" /\ LateReads(m, ms)
      THEN [res |-> "none", info |-> None, prev_save |-> s.prev_save,
            mode_stats |-> ms, changed_saves |-> FALSE]
      ELSE [res |-> "some", info |-> Some(MakeInfo(m, deaths, checkpoint)),
            prev_save |-> s.prev_save, mode_stats |-> ms,
            changed_saves |-> FALSE]

\* result: res is "some", "none" or "panic"; prev_save and mode_stats are the
\* adapter's cursors afterwards
CelesteUpdate(s, m) ==
  LET keep(res) == [res |-> res, info |-> None, prev_save |-> s.prev_save,
                    mode_stats |-> s.mode_stats, changed_saves |-> FALSE]
  IN
  IF m.fault = "read_early" THEN keep("none")
  ELSE IF m.fault = "panic" THEN keep("panic")
  ELSE IF m.save /= 0 /\ m.save /= s.prev_save
    THEN [res |-> "none", info |-> None, prev_save |-> m.save,
          mode_stats |-> 0, changed_saves |-> TRUE]
  ELSE IF m.fault = "read_deaths" /\ m.save /= 0 THEN keep("none")
  ELSE IF m.fault = "read_areas" /\ Resolves(s, m) THEN keep("none")
  ELSE
    LET ms == IF m.save /= 0 THEN ResolveModeStats(s, m) ELSE s.mode_stats
        deaths == IF m.save /= 0 THEN m.deaths ELSE 0
        checkpoint == IF m.save /= 0 /\ ms /= 0 THEN CountThrough(m, ms) ELSE 0
    IN
    IF m.fault = "read_late" /\ LateReads(m, ms)
      THEN [res |-> "none", info |-> None, prev_save |-> s.prev_save,
            mode_stats |-> ms, changed_saves |-> FALSE]
      ELSE [res |-> "some", info |-> Some(MakeInfo(m, deaths, checkpoint)),
            prev_save |-> s.prev_save, mode_stats |-> ms,
            changed_saves |-> FALSE]

\* The field names Celeste::update resolves by name (class_field_offset,
\* directly or inside read_boxed_string, static_field and instance_field),
\* in order, up to the step at which the tick returns. A failed read is the
\* first one of its part of the tick: "read_early" the read of the info
\* block, "read_deaths" and "read_areas" the reads of these fields,
\* "read_late" the read of Checkpoints or else of scene; "panic" is the
\* lookup of Instance.
SnapshotLookups(s, m) ==
  LET room == IF m.level /= 0 THEN << "m_firstChar", "m_stringLength" >>
              ELSE << >>
      early == room \o << "Instance" >>
      modes == IF m.items /= 0 THEN << "Modes" >> ELSE << >>
      items == IF m.areas_size = AreasCount THEN << "_items" >> \o modes
               ELSE << >>
      resolve == IF Resolves(s, m) THEN << "Areas", "_size" >> \o items
                 ELSE << >>
      ms == IF m.save /= 0 THEN ResolveModeStats(s, m) ELSE s.mode_stats
      checkpoints == IF m.save /= 0 /\ ms /= 0
                       THEN << "Checkpoints", "_count" >> ELSE << >>
      in_cutscene ==
        IF m.chapter /= -1 /\ m.chapter_started /\ ~m.chapter_complete
          THEN << "scene" >>
                 \o (IF m.in_level THEN << "InCutscene" >> ELSE << >>)
          ELSE << >>
      late == IF m.fault = "read_late" /\ LateReads(m, ms)
                THEN (IF m.save /= 0 /\ ms /= 0 THEN << "Checkpoints" >>
                      ELSE << "scene" >>)
                ELSE checkpoints \o in_cutscene
  IN
  IF m.fault = "read_early" THEN << >>
  ELSE IF m.fault = "panic" THEN early
  ELSE IF m.save = 0 THEN early \o late
  ELSE IF m.save /= s.prev_save THEN early
  ELSE IF m.fault = "read_deaths" THEN early \o << "TotalDeaths" >>
  ELSE IF m.fault = "read_areas" /\ Resolves(s, m)
    THEN early \o << "TotalDeaths", "Areas" >>
  ELSE early \o << "TotalDeaths" >> \o resolve \o late

\* ------------------------------------------------------------------------
\* MySplitter::update, (Some(old), Some(new)) arm
\* ------------------------------------------------------------------------

\* the reset trigger without the one-second window
ResetTriggerNoWindow(old, new) ==
  /\ new.chapter = 0
  /\ new.room = "0"
  /\ new.chapter_started
  /\ ~old.chapter_started

ResetTrigger(old, new) ==
  /\ new.chapter = 0
  /\ new.room = "0"
  /\ new.chapter_started
  /\ ~old.chapter_started
  /\ FileTimeMs(new) < ResetWindowMs

ResetCmds(old, new) ==
  IF ResetTrigger(old, new) THEN << Cmd("reset"), Cmd("start") >> ELSE << >>

\* the split is rearmed whenever the prologue is running, edge or not
SplitAfterResetNoEdge(split, old, new) ==
  IF /\ new.chapter = 0
     /\ new.room = "0"
     /\ new.chapter_started
     /\ FileTimeMs(new) < ResetWindowMs
    THEN "Prologue" ELSE split

\* the split is rearmed only from Start
SplitAfterResetFromStart(split, old, new) ==
  IF ResetTrigger(old, new) /\ split = "Start" THEN "Prologue" ELSE split

SplitAfterReset(split, old, new) ==
  IF ResetTrigger(old, new) THEN "Prologue" ELSE split

\* unpause issued before the game time is set
GameTimeCmdsUnpauseFirst(old, new) ==
  IF new.chapter_started
    THEN (IF ~old.chapter_started THEN << Cmd("unpause") >> ELSE << >>)
           \o << CmdArg("set_game_time", FileTimeMs(new)) >>
    ELSE IF old.chapter_started THEN << Cmd("pause") >> ELSE << >>

GameTimeCmds(old, new) ==
  IF new.chapter_started
    THEN << CmdArg("set_game_time", FileTimeMs(new)) >>
           \o (IF ~old.chapter_started THEN << Cmd("unpause") >> ELSE << >>)
    ELSE IF old.chapter_started THEN << Cmd("pause") >> ELSE << >>

\* the chapter splits fire while the completion screen is up, not when it
\* is dismissed
ShouldSplitOnComplete(split, old, new) ==
  CASE split \in {"Start", "End"} -> FALSE
    [] split \in {"Prologue", "City", "Site", "Resort", "Ridge", "Reflection",
                  "Summit"} -> new.chapter_complete
    [] split = "Cassette" -> new.file_cassettes = 1 /\ ~new.chapter_started
    [] split = "Temple" -> new.file_hearts = 1 /\ new.chapter_complete
    [] split = "Summit2500M" -> new.checkpoint = SummitCheckpoint

\* the cassette split without the check that the chapter has been left
ShouldSplitCassetteEarly(split, old, new) ==
  LET finished_chapter == old.chapter_complete /\ ~new.chapter_complete IN
  CASE split \in {"Start", "End"} -> FALSE
    [] split \in {"Prologue", "City", "Site", "Resort", "Ridge", "Reflection",
                  "Summit"} -> finished_chapter
    [] split = "Cassette" -> new.file_cassettes = 1
    [] split = "Temple" -> new.file_hearts = 1 /\ new.chapter_complete
    [] split = "Summit2500M" -> new.checkpoint = SummitCheckpoint

\* End handled like a chapter split
ShouldSplitAtEnd(split, old, new) ==
  LET finished_chapter == old.chapter_complete /\ ~new.chapter_complete IN
  CASE split = "Start" -> FALSE
    [] split \in {"Prologue", "City", "Site", "Resort", "Ridge", "Reflection",
                  "Summit", "End"} -> finished_chapter
    [] split = "Cassette" -> new.file_cassettes = 1 /\ ~new.chapter_started
    [] split = "Temple" -> new.file_hearts = 1 /\ new.chapter_complete
    [] split = "Summit2500M" -> new.checkpoint = SummitCheckpoint

ShouldSplit(split, old, new) ==
  LET finished_chapter == old.chapter_complete /\ ~new.chapter_complete IN
  CASE split \in {"Start", "End"} -> FALSE
    [] split \in {"Prologue", "City", "Site", "Resort", "Ridge", "Reflection",
                  "Summit"} -> finished_chapter
    [] split = "Cassette" -> new.file_cassettes = 1 /\ ~new.chapter_started
    [] split = "Temple" -> new.file_hearts = 1 /\ new.chapter_complete
    [] split = "Summit2500M" -> new.checkpoint = SummitCheckpoint

SplitCmds(split, old, new) ==
  IF ShouldSplit(split, old, new) THEN << Cmd("split") >> ELSE << >>

SplitAfterSplit(split, old, new) ==
  IF ShouldSplit(split, old, new) THEN SplitNext(split) ELSE split

\* u32::to_string: the decimal digits of n
Decimal(n) == ToString(n)

\* the death counter published at every update, changed or not
DeathCmdsAlways(old, new) ==
  << CmdArg("set_variable", Decimal(new.death_count)) >>

\* set_variable("Deaths", ..): the key is always "Deaths", arg is the value
DeathCmds(old, new) ==
  IF old.death_count /= new.death_count
    THEN << CmdArg("set_variable", Decimal(new.death_count)) >>
    ELSE << >>

\* commands of the whole arm, in the order they are issued
DiffCmds(split, old, new) ==
  ResetCmds(old, new) \o GameTimeCmds(old, new)
    \o SplitCmds(SplitAfterReset(split, old, new), old, new)
    \o DeathCmds(old, new)

DiffSplit(split, old, new) ==
  SplitAfterSplit(SplitAfterReset(split, old, new), old, new)

\* ------------------------------------------------------------------------
\* Process handle: Drop for Process calls detach once
\* ------------------------------------------------------------------------

DropProcess(log, token) == Append(log, token)

\* ------------------------------------------------------------------------
\* MySplitter::update with an adapter: snapshot, diff, failure counting
\* ------------------------------------------------------------------------

WarnFailedRead == "failed a read, will retry next step"

ErrorDisconnected == "disconnected, will try to re-connect"

WarnChangedSaves == "changed saves"

WarnNoConnection == "failed to connect to Celeste"

\* (Some(old), Some(new)) arm
TickBoth(s, r) ==
  LET old == old_info[1]
      new == r.info[1]
  IN
  /\ cmds' = DiffCmds(current_split, old, new)
  /\ current_split' = DiffSplit(current_split, old, new)
  /\ old_info' = Some(new)
  /\ failed_reads' = 0
  /\ state' = Some([s EXCEPT !.prev_save = r.prev_save, !.mode_stats = r.mode_stats])
  /\ logs' = << >>
  /\ absentRun' = 0
  /\ UNCHANGED << detached, crashed >>

\* the (None, Some(new)) arm taking the first snapshot of a chapter under
\* way as the start of the chapter
TickFirstUnpauses(s, r) ==
  /\ old_info' = Some(r.info[1])
  /\ state' = Some([s EXCEPT !.prev_save = r.prev_save, !.mode_stats = r.mode_stats])
  /\ cmds' = IF r.info[1].chapter_started THEN << Cmd("unpause") >> ELSE << >>
  /\ logs' = << >>
  /\ absentRun' = 0
  /\ UNCHANGED << current_split, failed_reads, detached, crashed >>

\* (None, Some(new)) arm
TickFirst(s, r) ==
  /\ old_info' = Some(r.info[1])
  /\ state' = Some([s EXCEPT !.prev_save = r.prev_save, !.mode_stats = r.mode_stats])
  /\ cmds' = << >>
  /\ logs' = << >>
  /\ absentRun' = 0
  /\ UNCHANGED << current_split, failed_reads, detached, crashed >>

\* the drop one failure early
ReachedThresholdEarly(n) == n = DisconnectThreshold - 1

ReachedThreshold(n) == n = DisconnectThreshold

\* the (Some(_old), None) arm forgetting the previous snapshot at every
\* failure
TickFailedForgets(s, r) ==
  LET n == failed_reads + 1
      saves == IF r.changed_saves THEN << WarnChangedSaves >> ELSE << >>
  IN
  /\ failed_reads' = n
  /\ cmds' = << >>
  /\ IF ReachedThreshold(n)
       THEN /\ logs' = saves \o << WarnFailedRead, ErrorDisconnected >>
            /\ old_info' = None
            /\ state' = None
            /\ detached' = DropProcess(detached, s.proc)
       ELSE /\ logs' = saves \o << WarnFailedRead >>
            /\ state' = Some([s EXCEPT !.prev_save = r.prev_save,
                                       !.mode_stats = r.mode_stats])
            /\ old_info' = Some([old_info[1] EXCEPT !.chapter_started = FALSE])
            /\ UNCHANGED detached
  /\ absentRun' = absentRun + 1
  /\ UNCHANGED << current_split, crashed >>

\* the (Some(_old), None) arm resetting the timer and the split at the drop
TickFailedResets(s, r) ==
  LET n == failed_reads + 1
      saves == IF r.changed_saves THEN << WarnChangedSaves >> ELSE << >>
  IN
  /\ failed_reads' = n
  /\ IF ReachedThreshold(n)
       THEN /\ logs' = saves \o << WarnFailedRead, ErrorDisconnected >>
            /\ old_info' = None
            /\ state' = None
            /\ detached' = DropProcess(detached, s.proc)
            /\ cmds' = << Cmd("reset") >>
            /\ current_split' = "Start"
       ELSE /\ logs' = saves \o << WarnFailedRead >>
            /\ state' = Some([s EXCEPT !.prev_save = r.prev_save,
                                       !.mode_stats = r.mode_stats])
            /\ cmds' = << >>
            /\ UNCHANGED << old_info, detached, current_split >>
  /\ absentRun' = absentRun + 1
  /\ UNCHANGED crashed

\* (Some(_old), None) arm
TickFailed(s, r) ==
  LET n == failed_reads + 1
      saves == IF r.changed_saves THEN << WarnChangedSaves >> ELSE << >>
  IN
  /\ failed_reads' = n
  /\ cmds' = << >>
  /\ IF ReachedThreshold(n)
       THEN /\ logs' = saves \o << WarnFailedRead, ErrorDisconnected >>
            /\ old_info' = None
            /\ state' = None
            /\ detached' = DropProcess(detached, s.proc)
       ELSE /\ logs' = saves \o << WarnFailedRead >>
            /\ state' = Some([s EXCEPT !.prev_save = r.prev_save,
                                       !.mode_stats = r.mode_stats])
            /\ UNCHANGED << old_info, detached >>
  /\ absentRun' = absentRun + 1
  /\ UNCHANGED << current_split, crashed >>

\* (None, None) arm
TickNothing(s, r) ==
  /\ state' = Some([s EXCEPT !.prev_save = r.prev_save, !.mode_stats = r.mode_stats])
  /\ cmds' = << >>
  /\ logs' = IF r.changed_saves THEN << WarnChangedSaves >> ELSE << >>
  /\ absentRun' = absentRun + 1
  /\ UNCHANGED << old_info, current_split, failed_reads, detached, crashed >>

\* a panic inside the snapshot ends the plugin; the adapter keeps its handle
TickPanic ==
  /\ crashed' = TRUE
  /\ cmds' = << >>
  /\ logs' = << >>
  /\ UNCHANGED << state, old_info, current_split, failed_reads, detached,
                  absentRun >>

Tick(m) ==
  /\ ~crashed
  /\ state /= None
  /\ LET s == state[1]
         r == CelesteUpdate(s, m)
     IN
     /\ was_connected' = TRUE
     /\ snap' = r.res
     /\ UNCHANGED attached
     /\ CASE r.res = "panic" -> TickPanic
          [] r.res = "some" /\ old_info /= None -> TickBoth(s, r)
          [] r.res = "some" /\ old_info = None -> TickFirst(s, r)
          [] r.res = "none" /\ old_info /= None -> TickFailed(s, r)
          [] r.res = "none" /\ old_info = None -> TickNothing(s, r)

\* ------------------------------------------------------------------------
\* MySplitter::update without an adapter: try_init
\* ------------------------------------------------------------------------

\* HostFunctions::attach: 0 from the host is no handle
AttachToken(a) == IF a.running THEN attached + 1 ELSE 0

\* addresses and offsets of the Mono runtime used by try_init
DomainListAddr == 10581656

DomainNameOffset == 216

DomainAssemblyOffset == 208

AssemblyImageOffset == 96

ImageClassCacheOffset == 1216

\* the class cache of a domain (lines 210..212)
DomainClassCache(m, celeste_domain) ==
  LET assembly == Read(m, celeste_domain + DomainAssemblyOffset) IN
  IF assembly = None THEN RNone
  ELSE LET image == Read(m, assembly[1] + AssemblyImageOffset) IN
       IF image = None THEN RNone
       ELSE RSome(image[1] + ImageClassCacheOffset)

\* the name of the first domain (lines 194..199): a string, or absent
FirstDomainName(m, first_domain) ==
  IF first_domain = 0 THEN Some("")
  ELSE LET strloc == Read(m, first_domain + DomainNameOffset) IN
       IF strloc = None THEN None ELSE ReadCstr(m, strloc[1])

\* try_init without the check of the first domain's name
TryInitCacheAnyName(m) ==
  LET domain_list == Read(m, DomainListAddr) IN
  IF domain_list = None THEN RNone
  ELSE
    LET first_domain == Read(m, domain_list[1])
        second_domain == Read(m, domain_list[1] + PointerSize)
    IN
    IF first_domain = None \/ second_domain = None THEN RNone
    ELSE IF FirstDomainName(m, first_domain[1]) = None THEN RNone
    ELSE DomainClassCache(m, IF second_domain[1] /= 0 THEN second_domain[1]
                               ELSE first_domain[1])

\* try_init with the class cache always taken from the first domain
TryInitCacheFirstDomain(m) ==
  LET domain_list == Read(m, DomainListAddr) IN
  IF domain_list = None THEN RNone
  ELSE
    LET first_domain == Read(m, domain_list[1])
        second_domain == Read(m, domain_list[1] + PointerSize)
    IN
    IF first_domain = None \/ second_domain = None THEN RNone
    ELSE
      LET first_name == FirstDomainName(m, first_domain[1]) IN
      IF first_name = None THEN RNone
      ELSE IF first_name[1] /= "Celeste.exe" THEN RNone
      ELSE DomainClassCache(m, first_domain[1])

\* try_init from the domain list to the class cache (lines 190..212)
TryInitCache(m) ==
  LET domain_list == Read(m, DomainListAddr) IN
  IF domain_list = None THEN RNone
  ELSE
    LET first_domain == Read(m, domain_list[1])
        second_domain == Read(m, domain_list[1] + PointerSize)
    IN
    IF first_domain = None \/ second_domain = None THEN RNone
    ELSE
      LET first_name == FirstDomainName(m, first_domain[1]) IN
      IF first_name = None THEN RNone
      ELSE IF first_name[1] /= "Celeste.exe" THEN RNone
      ELSE DomainClassCache(m, IF second_domain[1] /= 0 THEN second_domain[1]
                                 ELSE first_domain[1])

\* the fields of Celeste that try_init fills
NoAdapter ==
  [instance |-> 0, save_data_class |-> 0, engine_class |-> 0,
   level_class |-> 0, info |-> 0]

\* try_init once it holds a handle (lines 190..229): kind is "some", "none"
\* or "panic"
TryInit(m) ==
  LET fail(k) == [kind |-> k, adapter |-> NoAdapter]
      class_cache == TryInitCache(m)
  IN
  IF class_cache.kind /= "some" THEN fail(class_cache.kind)
  ELSE
    LET celeste_class == LookupClass(m, class_cache.val, "Celeste") IN
    IF celeste_class.kind /= "some" THEN fail(celeste_class.kind)
    ELSE
      LET celeste_instance == StaticField(m, celeste_class.val, "Instance")
          save_data_class == LookupClass(m, class_cache.val, "SaveData")
          engine_class == LookupClass(m, class_cache.val, "Engine")
          level_class == LookupClass(m, class_cache.val, "Level")
      IN
      IF celeste_instance.kind /= "some" THEN fail(celeste_instance.kind)
      ELSE IF save_data_class.kind /= "some" THEN fail(save_data_class.kind)
      ELSE IF engine_class.kind /= "some" THEN fail(engine_class.kind)
      ELSE IF level_class.kind /= "some" THEN fail(level_class.kind)
      ELSE
        LET info == LocateSplitterInfo(m, celeste_instance.val) IN
        IF info.kind /= "some" THEN fail(info.kind)
        ELSE [kind |-> "some",
              adapter |-> [instance |-> celeste_instance.val,
                           save_data_class |-> save_data_class.val,
                           engine_class |-> engine_class.val,
                           level_class |-> level_class.val,
                           info |-> info.val]]

\* what try_init does once it holds a handle: "some", "none" or "panic"
TryInitProbe(a) == TryInit(a.image).kind

\* the handle is a local of try_init until it is moved into the adapter
\* the handle of a failed try_init never given back
TryInitDetachNever(a, res) == FALSE

TryInitDetach(a, res) == res = "none" \/ (res = "panic" /\ a.unwinds)

\* the warning repeated at every failed attempt
ShouldWarnEveryAttempt(res, wc) == res = "none"

\* try_init().is_none() && self.was_connected
ShouldWarnNoConnection(res, wc) == res = "none" /\ wc

Reattach(a) ==
  /\ ~crashed
  /\ state = None
  /\ LET token == AttachToken(a)
         res == IF token = 0 THEN "none" ELSE TryInitProbe(a)
     IN
     /\ attached' = IF token /= 0 THEN attached + 1 ELSE attached
     /\ detached' = IF token /= 0 /\ TryInitDetach(a, res)
                      THEN DropProcess(detached, token) ELSE detached
     /\ state' = IF res = "some"
                   THEN Some([proc |-> token,
                              instance |-> TryInit(a.image).adapter.instance,
                              save_data_class |->
                                TryInit(a.image).adapter.save_data_class,
                              engine_class |->
                                TryInit(a.image).adapter.engine_class,
                              level_class |->
                                TryInit(a.image).adapter.level_class,
                              info |-> TryInit(a.image).adapter.info,
                              prev_save |-> 0, mode_stats |-> 0])
                   ELSE None
     /\ mem' = IF token /= 0 THEN a.image ELSE NoProcess
     /\ crashed' = (res = "panic")
     /\ IF ShouldWarnNoConnection(res, was_connected)
          THEN /\ was_connected' = FALSE
               /\ logs' = << WarnNoConnection >>
          ELSE /\ logs' = << >>
               /\ UNCHANGED was_connected
     /\ cmds' = << >>
     /\ snap' = "na"
     /\ absentRun' = 0
     /\ UNCHANGED << old_info, current_split, failed_reads >>

\* ------------------------------------------------------------------------
\* Splitter::new
\* ------------------------------------------------------------------------

Init ==
  /\ state = None
  /\ old_info = None
  /\ was_connected = TRUE
  /\ current_split = "Start"
  /\ failed_reads = 0
  /\ cmds = << CmdArg("set_variable", "0"), CmdArg("set_tick_rate", 60) >>
  /\ logs = << >>
  /\ snap = "na"
  /\ attached = 0
  /\ detached = << >>
  /\ crashed = FALSE
  /\ absentRun = 0
  /\ mem = NoProcess
  /\ call = NoCall
  /\ ret = NoRet

\* ------------------------------------------------------------------------
\* What the attached process shows during one update
\* ------------------------------------------------------------------------

BaseTick ==
  [ fault |-> "ok", chapter |-> 1, level |-> 1, level_name |-> "0",
    chapter_started |-> FALSE, chapter_complete |-> FALSE,
    file_time |-> 10000000, file_cassettes |-> 0, file_hearts |-> 0,
    save |-> 1, deaths |-> 7, areas_size |-> AreasCount, items |-> 1,
    mode_obj |-> 1, count |-> 0, in_level |-> TRUE, other_count |-> 0 ]

\* snapshots around the start of a run
TriggerTicks ==
  { [BaseTick EXCEPT !.chapter = c, !.level = l, !.file_time = t,
                     !.chapter_started = st] :
      c \in {0, 1}, l \in {0, 1}, t \in {425000, 10000000}, st \in BOOLEAN }

\* what a snapshot later in a run can show on top of the two chapter flags:
\* nothing, the first cassette, the first heart, or the 2500 M checkpoint
Pickups == { <<0, 0, 0>>, <<1, 0, 0>>, <<0, 1, 0>>, <<0, 0, SummitCheckpoint>> }

\* snapshots later in a run
PickupTicks ==
  { [BaseTick EXCEPT !.chapter_started = st, !.chapter_complete = co,
                     !.file_cassettes = p[1], !.file_hearts = p[2],
                     !.count = p[3]] :
      st \in BOOLEAN, co \in BOOLEAN, p \in Pickups }
    \cup { [BaseTick EXCEPT !.deaths = 8, !.file_cassettes = p[1],
                            !.file_hearts = p[2], !.count = p[3]] :
             p \in Pickups }

\* ticks in which something other than the game state is unusual
OddTicks ==
  { [BaseTick EXCEPT !.fault = f] : f \in {"read_early", "read_late", "panic"} }
    \cup { [BaseTick EXCEPT !.save = sv] : sv \in {0, 2} }
    \cup { [BaseTick EXCEPT !.chapter = -1] }
    \cup { [BaseTick EXCEPT !.areas_size = 10], [BaseTick EXCEPT !.mode_obj = 0] }

TickInputs == TriggerTicks \cup PickupTicks \cup OddTicks

\* a few snapshots, and every way a tick can go wrong
ReconnectTicks ==
  { [BaseTick EXCEPT !.chapter = 0, !.file_time = 425000, !.fault = f,
                     !.chapter_started = st] :
      f \in {"ok", "read_early", "read_late", "panic"}, st \in BOOLEAN }
    \cup { [BaseTick EXCEPT !.save = 2] }

\* the words of a class cache of two buckets at cache, its table at table,
\* with the classes of the game from base on: Celeste (base) and Engine in
\* the first bucket, SaveData and (when level) Level in the second. Celeste
\* is loaded in its first domain; its static Instance (offset 8) is the
\* object at base + 8000, whose AutoSplitterInfo field (offset 40) points to
\* base + 9000.
GameClasses(cache, table, base, level) ==
  (cache + CacheSizeOffset :> 2) @@ (cache + CacheTableOffset :> table)
    @@ (table :> base) @@ (table + 8 :> base + 1000)
    @@ MkClass(base, Def, 50001, base + 2000, 2, base + 4000, 1, base + 5000, 0)
    @@ MkClass(base + 1000, Def, 50002, IF level THEN base + 3000 ELSE 0,
               0, 0, 0, 0, 0)
    @@ MkClass(base + 2000, Def, 50011, 0, 0, 0, 0, 0, 0)
    @@ MkClass(base + 3000, Def, 50012, 0, 0, 0, 0, 0, 0)
    @@ MkField(base + 4000, 0, 50003, 8)
    @@ MkField(base + 4000, 1, 50009, 40)
    @@ (base + 5000 :> 0) @@ (base + 5008 :> base + 6000)
    @@ (base + 6000 :> base) @@ (base + 6072 :> base + 7000)
    @@ (base + 7008 :> base + 8000)
    @@ (base + 8000 :> base + 6000) @@ (base + 8040 :> base + 9000)

\* A process with a domain list of two entries, first and second (0: no
\* domain). The first domain (3000) is named name and its class cache is at
\* 6216; the class cache of the second (3500) is at 8216.
GameImage(first, second, name, level) ==
  [ words |->
      (DomainListAddr :> 2000) @@ (2000 :> first) @@ (2008 :> second)
        @@ (3000 + DomainNameOffset :> 50010)
        @@ (3000 + DomainAssemblyOffset :> 4000)
        @@ (4000 + AssemblyImageOffset :> 5000)
        @@ (3500 + DomainAssemblyOffset :> 4500)
        @@ (4500 + AssemblyImageOffset :> 7000)
        @@ GameClasses(5000 + ImageClassCacheOffset, 9000, 10000, level)
        @@ GameClasses(7000 + ImageClassCacheOffset, 9100, 20000, level),
    strs |->
      (50001 :> "Celeste") @@ (50002 :> "SaveData") @@ (50003 :> "Instance")
        @@ (50009 :> "AutoSplitterInfo") @@ (50010 :> name)
        @@ (50011 :> "Engine") @@ (50012 :> "Level"),
    bytes |-> << >> ]

\* what attach finds: no process; the game with one or two domains; a
\* process without domains or with another first domain; a process whose
\* memory cannot be read; the game before Level is loaded
AttachInputs ==
  { [running |-> FALSE, image |-> NoProcess, unwinds |-> FALSE],
    [running |-> TRUE, image |-> NoProcess, unwinds |-> FALSE],
    [running |-> TRUE, image |-> GameImage(3000, 0, "Celeste.exe", TRUE),
     unwinds |-> FALSE],
    [running |-> TRUE, image |-> GameImage(3000, 3500, "Celeste.exe", TRUE),
     unwinds |-> FALSE],
    [running |-> TRUE, image |-> GameImage(0, 3500, "Celeste.exe", TRUE),
     unwinds |-> FALSE],
    [running |-> TRUE, image |-> GameImage(3000, 3500, "other.exe", TRUE),
     unwinds |-> FALSE],
    [running |-> TRUE, image |-> GameImage(3000, 0, "Celeste.exe", FALSE),
     unwinds |-> FALSE],
    [running |-> TRUE, image |-> GameImage(3000, 0, "Celeste.exe", FALSE),
     unwinds |-> TRUE] }

\* the snapshot of this tick is absent
Absent(m) == CelesteUpdate(state[1], m).res = "none"

TickWithin(inputs, cap) ==
  \E m \in inputs :
    /\ state /= None
    /\ Absent(m) => absentRun < cap
    /\ Tick(m)
    /\ UNCHANGED << mem, call, ret >>

ReattachWithin ==
  \E a \in AttachInputs :
    /\ a.running => attached < MaxAttach
    /\ Reattach(a)
    /\ UNCHANGED << call, ret >>

Next == TickWithin(TickInputs, MaxAbsentRun) \/ ReattachWithin

Spec == Init /\ [][Next]_vars

NextReconnect == TickWithin(ReconnectTicks, MaxAbsentLong) \/ ReattachWithin

SpecReconnect == Init /\ [][NextReconnect]_vars

\* ------------------------------------------------------------------------
\* The reflection layer applied to images of the game's memory
\* ------------------------------------------------------------------------

\* A class cache at 4096 with two buckets: Celeste (10000, loaded in the
\* second domain, static data at 90000) followed by an instantiation of
\* List (30000) in the first, SaveData (20000, not loaded in any domain)
\* in the second when cached. The instantiation's container is 20000; its
\* own field array (62000) is not the container's. The Celeste object is at
\* 95000. kind2 is the kind of 20000; named: the name of 20000 is mapped.
Image(kind2, cached, named) ==
  [ words |->
      (4096 + CacheSizeOffset :> 2)
        @@ (4096 + CacheTableOffset :> 8192)
        @@ (8192 :> 10000)
        @@ (8200 :> IF cached THEN 20000 ELSE 0)
        @@ MkClass(10000, Def + 16, 50001, 30000, 2, 60000, 3, 70000, 0)
        @@ MkClass(30000, Ginst, 50005, 0, 1, 62000, 0, 0, 31000)
        @@ (31000 :> 20000)
        @@ MkClass(20000, kind2, 50002, 0, 1, 61000, 0, 71000, 0)
        @@ MkField(60000, 0, 50003, 16)
        @@ MkField(60000, 1, 50004, 24)
        @@ MkField(61000, 0, 50003, 8)
        @@ MkField(62000, 0, 50003, 99)
        @@ (70000 :> 1) @@ (70008 :> 0) @@ (70016 :> 80000)
        @@ (80000 :> 10000) @@ (80088 :> 90000)
        @@ (90016 :> 95000) @@ (95000 :> 80000)
        @@ (71000 :> 0) @@ (71008 :> 0),
    strs |->
      (50001 :> "Celeste") @@ (50003 :> "Instance") @@ (50004 :> "scene")
        @@ (50005 :> "List")
        @@ (IF named THEN (50002 :> "SaveData") ELSE << >>),
    bytes |-> << >> ]

\* the image with Celeste loaded in the first domain too, with another
\* vtable (81000) and static data at 91000
TwoVtables(img) ==
  [img EXCEPT !.words = (70008 :> 81000) @@ (81000 :> 10000)
                          @@ (81088 :> 91000) @@ @]

\* the image with a nonzero word in the four bytes behind max_domains of
\* SaveData (71004); beyond: the slot behind its only domain slot holds the
\* vtable of Celeste and the word that vtable has at + 64 is mapped
WideDomains(img, beyond) ==
  [img EXCEPT !.words =
     (71004 :> 1)
       @@ (IF beyond THEN (71016 :> 80000) @@ (80064 :> 92000) ELSE << >>)
       @@ @]

\* the image with the chain of the first bucket closed into a cycle: the
\* successor of the instantiation of List is Celeste again
CyclicChain(img) ==
  [img EXCEPT !.words = (30000 + ClassNextOffset :> 10000) @@ @]

\* the image with the instantiation of List as its own generic definition
SelfGeneric(img) == [img EXCEPT !.words = (31000 :> 30000) @@ @]

\* longest managed string
MaxStr == 2

\* UTF-16 code units: A, a high surrogate, a low surrogate
CodeUnits == {65, 55357, 56832}

UnitSeqs == UNION { [1..n -> CodeUnits] : n \in 0..MaxStr }

\* the image with a managed string at 96000 (class String at 40000, length
\* at +16, code units from +20 on, low byte first)
WithString(img, units) ==
  [img EXCEPT
     !.words = (96000 :> 82000) @@ (82000 :> 40000)
                 @@ MkClass(40000, Def, 50006, 0, 2, 63000, 0, 0, 0)
                 @@ MkField(63000, 0, 50007, 16)
                 @@ MkField(63000, 1, 50008, 20)
                 @@ (96016 :> Len(units)) @@ @,
     !.strs = (50006 :> "String") @@ (50007 :> "m_stringLength")
                @@ (50008 :> "m_firstChar") @@ @,
     !.bytes = [a \in 96020..(96019 + 2 * Len(units)) |->
                  LET k == a - 96020
                      u == units[(k \div 2) + 1]
                  IN IF k % 2 = 0 THEN u % 256 ELSE u \div 256] ]

Images ==
  LET plain ==
        { Image(k, c, n) : k \in {Def, Gtd, Array}, c \in BOOLEAN,
                           n \in BOOLEAN }
  IN plain \cup { TwoVtables(img) : img \in plain }
       \cup { WithString(Image(Def, TRUE, TRUE), u) : u \in UnitSeqs }
       \cup { WideDomains(Image(Def, TRUE, TRUE), b) : b \in BOOLEAN }
       \cup { CyclicChain(Image(Def, TRUE, TRUE)),
              SelfGeneric(Image(Def, TRUE, TRUE)) }

\* a panic ends the plugin
Returned(r) ==
  /\ ret' = r
  /\ crashed' = (r.kind = "panic")
  /\ UNCHANGED << state, old_info, was_connected, current_split,
                  failed_reads, cmds, logs, snap, attached, detached,
                  absentRun, mem >>

CallLookupClass ==
  \E name \in {"Celeste", "SaveData", "Level"} :
    /\ ~crashed
    /\ call' = [fn |-> "lookup_class", class |-> 4096, name |-> name]
    /\ Returned(LookupClass(mem, 4096, name))

CallClassStaticFields ==
  \E class \in {10000, 20000} :
    /\ ~crashed
    /\ call' = [fn |-> "class_static_fields", class |-> class, name |-> ""]
    /\ Returned(ClassStaticFields(mem, class))

CallClassFieldOffset ==
  \E class \in {10000, 20000, 30000}, name \in {"Instance", "scene", "Areas"} :
    /\ ~crashed
    /\ call' = [fn |-> "class_field_offset", class |-> class, name |-> name]
    /\ Returned(ClassFieldOffset(mem, class, name, MaxGeneric))

CallInstanceClass ==
  \E instance \in {95000, 95001, 31000, 31001, 12344, 12345} :
    /\ ~crashed
    /\ call' = [fn |-> "instance_class", class |-> instance, name |-> ""]
    /\ Returned([kind |-> InstanceClass(mem, instance).kind,
                 val |-> InstanceClass(mem, instance).val,
                 reads |-> InstanceClassReads(mem, instance)])

CallReadBoxedString ==
  \E instance \in {96000, 95000} :
    /\ ~crashed
    /\ call' = [fn |-> "read_boxed_string", class |-> instance, name |-> ""]
    /\ Returned(ReadBoxedString(mem, instance))

InitReflect ==
  /\ state = None
  /\ old_info = None
  /\ was_connected = TRUE
  /\ current_split = "Start"
  /\ failed_reads = 0
  /\ cmds = << CmdArg("set_variable", "0"), CmdArg("set_tick_rate", 60) >>
  /\ logs = << >>
  /\ snap = "na"
  /\ attached = 0
  /\ detached = << >>
  /\ crashed = FALSE
  /\ absentRun = 0
  /\ mem \in Images
  /\ call = NoCall
  /\ ret = NoRet

NextReflect ==
  \/ CallLookupClass
  \/ CallClassStaticFields
  \/ CallClassFieldOffset
  \/ CallInstanceClass
  \/ CallReadBoxedString

SpecReflect == InitReflect /\ [][NextReflect]_vars

\* ------------------------------------------------------------------------
\* Celeste::update on its own: an adapter and the snapshots it takes
\* ------------------------------------------------------------------------

\* the checkpoint count a save can show besides 0
SomeCheckpoints == 6

\* a tick in a chapter under way, with checkpoints collected
SnapshotTick ==
  [BaseTick EXCEPT !.chapter_started = TRUE, !.count = SomeCheckpoints]

\* every way the save, the chapter and the Areas list can stand with every
\* way a tick can fail, and single departures from SnapshotTick
SnapshotTicks ==
  { [SnapshotTick EXCEPT !.fault = f, !.chapter = c, !.save = sv,
                         !.areas_size = sz, !.mode_obj = mo] :
      f \in {"ok", "read_early", "read_deaths", "read_areas", "read_late",
             "panic"},
      c \in {-1, 1, 2}, sv \in {0, 1, 2}, sz \in {10, AreasCount},
      mo \in {0, 1, 2} }
    \cup { [SnapshotTick EXCEPT !.items = 0], [SnapshotTick EXCEPT !.count = 0],
           [SnapshotTick EXCEPT !.in_level = FALSE],
           [SnapshotTick EXCEPT !.chapter_started = FALSE],
           [SnapshotTick EXCEPT !.level = 0],
           [SnapshotTick EXCEPT !.chapter = 2, !.mode_obj = 2, !.count = 0,
                                !.other_count = SomeCheckpoints] }

\* one call of Celeste::update: call keeps the adapter as it was and what
\* the process showed, ret the snapshot and the names resolved for it
CallCelesteUpdate ==
  \E m \in SnapshotTicks :
    /\ ~crashed
    /\ state /= None
    /\ LET s == state[1]
           r == CelesteUpdate(s, m)
       IN
       /\ call' = [fn |-> "update", class |-> 0, name |-> "", before |-> s,
                   tick |-> m]
       /\ ret' = [kind |-> r.res, val |-> r.info,
                  names |-> SnapshotLookups(s, m)]
       /\ state' = Some([s EXCEPT !.prev_save = r.prev_save,
                                  !.mode_stats = r.mode_stats])
       /\ crashed' = (r.res = "panic")
    /\ UNCHANGED << old_info, was_connected, current_split, failed_reads,
                    cmds, logs, snap, attached, detached, absentRun, mem >>

\* the adapter try_init builds for the game with one domain
InitSnapshot ==
  LET image == GameImage(3000, 0, "Celeste.exe", TRUE) IN
  /\ state = Some([proc |-> 1,
                   instance |-> TryInit(image).adapter.instance,
                   save_data_class |-> TryInit(image).adapter.save_data_class,
                   engine_class |-> TryInit(image).adapter.engine_class,
                   level_class |-> TryInit(image).adapter.level_class,
                   info |-> TryInit(image).adapter.info,
                   prev_save |-> 0, mode_stats |-> 0])
  /\ old_info = None
  /\ was_connected = TRUE
  /\ current_split = "Start"
  /\ failed_reads = 0
  /\ cmds = << >>
  /\ logs = << >>
  /\ snap = "na"
  /\ attached = 1
  /\ detached = << >>
  /\ crashed = FALSE
  /\ absentRun = 0
  /\ mem = image
  /\ call = NoCall
  /\ ret = NoRet

NextSnapshot == CallCelesteUpdate

SpecSnapshot == InitSnapshot /\ [][NextSnapshot]_vars

\* ------------------------------------------------------------------------
\* Properties
\* ------------------------------------------------------------------------

HasOp(c, op) == \E i \in 1..Len(c) : c[i].op = op

\* position of the first command op in c (0 when there is none)
FirstOp(c, op) ==
  IF HasOp(c, op) THEN CHOOSE i \in 1..Len(c) :
                         c[i].op = op /\ \A j \in 1..(i - 1) : c[j].op /= op
  ELSE 0

\* every reset is directly followed by a start and every start directly
\* preceded by a reset
ResetStartPaired(c) ==
  \A i \in 1..Len(c) :
    /\ c[i].op = "reset" => (i < Len(c) /\ c[i + 1].op = "start")
    /\ c[i].op = "start" => (i > 1 /\ c[i - 1].op = "reset")

\* the last update fired the reset trigger
ResetFired == HasOp(cmds, "reset") /\ HasOp(cmds, "start")

\* C1: from one update to the next the position of current_split in the
\* split order never decreases, except in an update that emits reset and
\* start.
C1_SplitMonotone ==
  [][ \/ SplitPos(current_split') >= SplitPos(current_split)
      \/ (HasOp(cmds', "reset") /\ HasOp(cmds', "start")) ]_vars

\* an update has split from Temple on to Reflection
C1_Witness ==
  current_split = "Reflection" /\ HasOp(cmds, "split") /\ ~ResetFired

\* C2 as stated: once current_split is End it is End after every later
\* update, whatever the ticks observe.
C2_EndAbsorbing == [][ current_split = "End" => current_split' = "End" ]_vars

\* C2 amended: once current_split is End it stays End in every update that
\* does not fire the reset trigger.
C2_EndAbsorbingUntilReset ==
  [][ (current_split = "End" /\ ~HasOp(cmds', "reset"))
        => current_split' = "End" ]_vars

\* an update with both snapshots present has run at End and left it at End
C2_Witness ==
  current_split = "End" /\ snap = "some" /\ ~HasOp(cmds, "split")
    /\ Len(cmds) > 0

\* C3: within an attachment session, once a snapshot has succeeded, the
\* adapter is gone by the end of the 100th consecutive update without a
\* snapshot.
C3_ReconnectBound ==
  (state /= None /\ old_info /= None) => absentRun < DisconnectThreshold

\* C4: after every update in which the adapter produced a snapshot,
\* failed_reads is 0.
C4_SnapshotResetsCounter == snap = "some" => failed_reads = 0

\* C5: the adapter is gone by the end of the 100th consecutive update that
\* had an adapter and no snapshot, whether or not a snapshot was held.
C5_DropAfterHundredAbsent == state /= None => absentRun < DisconnectThreshold

\* the last update counted a failure: no snapshot while one was held before
CountedFailure == snap = "none" /\ (old_info /= None \/ state = None)

InLogs(line) == \E i \in 1..Len(logs) : logs[i] = line

\* C6: in a run of absent snapshots after a present one the read-failure
\* warning is emitted on the first failure only and the disconnect error on
\* the 100th only.
C6_WarnOnceErrorOnce ==
  CountedFailure =>
    /\ InLogs(WarnFailedRead) <=> absentRun = 1
    /\ InLogs(ErrorDisconnected) <=> absentRun = DisconnectThreshold

\* C7: every nonzero token handed out by attach is detached exactly once
\* unless the adapter still holds it, no token is detached twice, and
\* nothing that attach did not hand out is detached.
C7_HandleLifetime ==
  /\ \A i, j \in 1..Len(detached) : detached[i] = detached[j] => i = j
  /\ \A i \in 1..Len(detached) : detached[i] \in 1..attached
  /\ \A t \in 1..attached :
       \/ state /= None /\ state[1].proc = t
       \/ \E i \in 1..Len(detached) : detached[i] = t

\* C8 as stated: an update that fires the reset trigger emits reset, start,
\* unpause, set_game_time in this order.
C8_ResetStartUnpauseTime ==
  ResetFired =>
    /\ FirstOp(cmds, "reset") < FirstOp(cmds, "start")
    /\ FirstOp(cmds, "start") < FirstOp(cmds, "unpause")
    /\ FirstOp(cmds, "unpause") < FirstOp(cmds, "set_game_time")

\* C8 amended: an update that fires the reset trigger emits first reset,
\* start, set_game_time(file_time in ms), unpause, in this order.
C8_ResetStartTimeUnpause ==
  ResetFired =>
    /\ Len(cmds) >= 4
    /\ SubSeq(cmds, 1, 4) =
         << Cmd("reset"), Cmd("start"),
            CmdArg("set_game_time", old_info[1].file_time \div 10000),
            Cmd("unpause") >>

\* the cold start of the prologue at 42 ms
C8_Witness ==
  /\ ResetFired
  /\ HasOp(cmds, "unpause")
  /\ \E i \in 1..Len(cmds) :
       cmds[i].op = "set_game_time" /\ cmds[i].arg = 42

\* C9: an update with both snapshots present emits reset directly followed
\* by start exactly when current chapter = 0, room = "0", chapter_started
\* has just become true and file_time is below one second; no other update
\* emits either, and never one without the other.
C9_ResetIffTrigger ==
  [][ LET both == old_info /= None /\ snap' = "some" IN
      /\ ResetStartPaired(cmds')
      /\ HasOp(cmds', "reset") <=>
           /\ both
           /\ old_info'[1].chapter = 0
           /\ old_info'[1].room = "0"
           /\ old_info'[1].chapter_started
           /\ ~old_info[1].chapter_started
           /\ old_info'[1].file_time < 10000000 ]_vars

\* an update with both snapshots present has emitted reset directly
\* followed by start, in chapter 0, room "0", within the first second
C9_Witness ==
  /\ snap = "some"
  /\ Len(cmds) >= 2
  /\ cmds[1].op = "reset" /\ cmds[2].op = "start"
  /\ old_info /= None
  /\ old_info[1].chapter = 0 /\ old_info[1].room = "0"
  /\ old_info[1].chapter_started /\ old_info[1].file_time < 10000000

\* C10 as stated: after an update that fires the reset trigger
\* current_split is Prologue.
C10_PrologueAfterReset == ResetFired => current_split = "Prologue"

\* C10 amended: after an update that fires the reset trigger current_split
\* is Prologue, unless chapter_complete went from true to false in the same
\* update: then the split rule has run for Prologue and it is City.
C10_PrologueOrCityAfterReset ==
  [][ HasOp(cmds', "reset") =>
        /\ old_info /= None
        /\ old_info' /= None
        /\ current_split' =
             IF old_info[1].chapter_complete /\ ~old_info'[1].chapter_complete
               THEN "City" ELSE "Prologue" ]_vars

\* the trigger has fired and only rearmed the split
C10_Witness ==
  ResetFired /\ current_split = "Prologue" /\ ~HasOp(cmds, "split")

\* the split the split rule of the step is evaluated in: Prologue when the
\* reset trigger has fired in the same update, the stored split otherwise
RuleSplit ==
  IF HasOp(cmds', "reset") THEN "Prologue" ELSE current_split

\* both snapshots of the step are present
BothPresent == old_info /= None /\ snap' = "some"

ChapterSplits ==
  {"Prologue", "City", "Site", "Resort", "Ridge", "Reflection", "Summit"}

\* C11: with current_split one of Prologue, City, Site, Resort, Ridge,
\* Reflection, Summit, an update with both snapshots present emits split
\* exactly when chapter_complete was true in the previous snapshot and is
\* false in the current one, and then current_split becomes the immediate
\* successor.
C11_ChapterSplit ==
  [][ (BothPresent /\ RuleSplit \in ChapterSplits) =>
        /\ HasOp(cmds', "split") <=>
             (old_info[1].chapter_complete /\ ~old_info'[1].chapter_complete)
        /\ HasOp(cmds', "split") =>
             current_split' = SplitOrder[SplitPos(RuleSplit) + 1]
        /\ ~HasOp(cmds', "split") => current_split' = RuleSplit ]_vars

\* the completion screen of City has been dismissed: split, now at Site
C11_Witness ==
  /\ current_split = "Site"
  /\ snap = "some"
  /\ HasOp(cmds, "split")
  /\ ~HasOp(cmds, "reset")
  /\ ~old_info[1].chapter_complete

\* C12: at Cassette split is emitted exactly when the current snapshot has
\* file_cassettes = 1 and chapter_started false, at Temple exactly when it
\* has file_hearts = 1 and chapter_complete true, at Summit2500M exactly
\* when it has checkpoint = 6, whatever the previous snapshot is; each
\* emitted split advances current_split by one step.
C12_LevelSplit ==
  [][ (BothPresent /\ RuleSplit \in {"Cassette", "Temple", "Summit2500M"}) =>
        LET new == old_info'[1] IN
        /\ RuleSplit = "Cassette" =>
             (HasOp(cmds', "split") <=>
                (new.file_cassettes = 1 /\ ~new.chapter_started))
        /\ RuleSplit = "Temple" =>
             (HasOp(cmds', "split") <=>
                (new.file_hearts = 1 /\ new.chapter_complete))
        /\ RuleSplit = "Summit2500M" =>
             (HasOp(cmds', "split") <=> new.checkpoint = 6)
        /\ current_split' =
             IF HasOp(cmds', "split")
               THEN SplitOrder[SplitPos(RuleSplit) + 1] ELSE RuleSplit ]_vars

\* the 2500 M checkpoint has been reached: split, now at Summit
C12_Witness ==
  /\ current_split = "Summit"
  /\ snap = "some"
  /\ HasOp(cmds, "split")
  /\ old_info[1].checkpoint = 6

\* C13: while current_split is Start or End no update emits split, unless
\* the reset trigger fires in that update (the split then comes after the
\* reset, from Prologue).
C13_NoSplitAtStartOrEnd ==
  [][ /\ (current_split \in {"Start", "End"} /\ HasOp(cmds', "split")) =>
           HasOp(cmds', "reset")
      /\ (HasOp(cmds', "split") /\ HasOp(cmds', "reset")) =>
           /\ FirstOp(cmds', "reset") < FirstOp(cmds', "split")
           /\ current_split' = "City" ]_vars

\* at End, a completion screen has just been dismissed and nothing is split
C13_Witness ==
  /\ current_split = "End"
  /\ snap = "some"
  /\ old_info /= None
  /\ ~old_info[1].chapter_complete
  /\ HasOp(cmds, "pause")
  /\ ~HasOp(cmds, "split")

\* number of commands op in c
CountOp(c, op) == Cardinality({ i \in 1..Len(c) : c[i].op = op })

\* C14: an update with both snapshots present emits set_game_time, with
\* file_time truncated to whole milliseconds, exactly when the current
\* chapter_started is true, unpause exactly when chapter_started went from
\* false to true and pause exactly when it went from true to false; no
\* other update emits any of the three.
C14_GameTimeAndPause ==
  [][ /\ BothPresent =>
           LET old == old_info[1]
               new == old_info'[1] IN
           /\ HasOp(cmds', "set_game_time") <=> new.chapter_started
           /\ \A i \in 1..Len(cmds') :
                cmds'[i].op = "set_game_time" =>
                  /\ cmds'[i].arg * 10000 <= new.file_time
                  /\ new.file_time < (cmds'[i].arg + 1) * 10000
           /\ CountOp(cmds', "set_game_time") <= 1
           /\ HasOp(cmds', "unpause") <=>
                (new.chapter_started /\ ~old.chapter_started)
           /\ HasOp(cmds', "pause") <=>
                (~new.chapter_started /\ old.chapter_started)
      /\ ~BothPresent =>
           /\ ~HasOp(cmds', "set_game_time")
           /\ ~HasOp(cmds', "unpause")
           /\ ~HasOp(cmds', "pause") ]_vars

\* 42.5 ms of file time have been reported as 42 ms, without unpause
C14_Witness ==
  /\ snap = "some"
  /\ old_info /= None
  /\ old_info[1].file_time = 425000
  /\ ~HasOp(cmds, "unpause")
  /\ \E i \in 1..Len(cmds) :
       cmds[i].op = "set_game_time" /\ cmds[i].arg = 42

\* the current snapshot differs from the previous one in death_count only
DeathOnly ==
  /\ BothPresent
  /\ old_info[1].death_count /= old_info'[1].death_count
  /\ [old_info[1] EXCEPT !.death_count = old_info'[1].death_count]
       = old_info'[1]

\* the counter is published exactly when it has changed, as its decimal
\* digits
DeathsPublished ==
  BothPresent =>
    /\ HasOp(cmds', "set_variable") <=>
         old_info[1].death_count /= old_info'[1].death_count
    /\ \A i \in 1..Len(cmds') :
         cmds'[i].op = "set_variable" =>
           cmds'[i].arg = ToString(old_info'[1].death_count)

\* C15 as stated: with both snapshots present set_variable("Deaths", n) is
\* emitted exactly when death_count differs, and a change of death_count
\* alone emits no split, reset, start, pause or unpause and leaves
\* current_split unchanged.
C15_DeathsOnlyNoSplit ==
  [][ /\ DeathsPublished
      /\ DeathOnly =>
           /\ \A op \in {"split", "reset", "start", "pause", "unpause"} :
                ~HasOp(cmds', op)
           /\ current_split' = current_split ]_vars

\* C15 amended: with both snapshots present set_variable("Deaths", n) is
\* emitted exactly when death_count differs; a change of death_count alone
\* emits no reset, start, pause or unpause, and emits split (advancing
\* current_split by one step) only at Cassette, Temple or Summit2500M when
\* the current snapshot meets the condition of that split; otherwise
\* current_split is unchanged.
C15_DeathsOnlyLevelSplit ==
  [][ /\ DeathsPublished
      /\ DeathOnly =>
           LET new == old_info'[1] IN
           /\ \A op \in {"reset", "start", "pause", "unpause"} :
                ~HasOp(cmds', op)
           /\ HasOp(cmds', "split") <=>
                \/ /\ current_split = "Cassette"
                   /\ new.file_cassettes = 1 /\ ~new.chapter_started
                \/ /\ current_split = "Temple"
                   /\ new.file_hearts = 1 /\ new.chapter_complete
                \/ current_split = "Summit2500M" /\ new.checkpoint = 6
           /\ current_split' =
                IF HasOp(cmds', "split")
                  THEN SplitOrder[SplitPos(current_split) + 1]
                  ELSE current_split ]_vars

\* death 8 has been published and nothing else has happened
C15_Witness ==
  /\ snap = "some"
  /\ cmds = << CmdArg("set_variable", "8") >>
  /\ old_info /= None
  /\ old_info[1].death_count = 8

\* the update of the step has met a save profile swap
SwapTick == state /= None /\ InLogs(WarnChangedSaves)'

\* the update of the step is a counted failure that reaches the threshold
HundredthFailure ==
  old_info /= None /\ snap' = "none" /\ failed_reads' = DisconnectThreshold

\* the swap has moved prev_save to another, nonzero address and cleared
\* mode_stats; the adapter is still held
SwapStored ==
  /\ state' /= None
  /\ state'[1].prev_save \notin {0, state[1].prev_save}
  /\ state'[1].mode_stats = 0
  /\ state'[1].proc = state[1].proc

\* C16 as stated: in a tick where SaveData.Instance is nonzero and differs
\* from prev_save the snapshot is absent, prev_save becomes the new address,
\* mode_stats becomes 0, no split, reset or start is emitted and
\* current_split and the previous snapshot are unchanged.
C16_SwapKeepsSnapshot ==
  [][ SwapTick =>
        /\ snap' = "none"
        /\ SwapStored
        /\ \A op \in {"split", "reset", "start"} : ~HasOp(cmds', op)
        /\ current_split' = current_split
        /\ old_info' = old_info ]_vars

\* C16 amended: as stated, except when the swap tick is the counted failure
\* that brings failed_reads to 100: then the adapter (with prev_save and
\* mode_stats) and the previous snapshot are dropped.
C16_SwapKeepsSnapshotUnlessDropped ==
  [][ SwapTick =>
        /\ snap' = "none"
        /\ \A op \in {"split", "reset", "start"} : ~HasOp(cmds', op)
        /\ current_split' = current_split
        /\ IF HundredthFailure
             THEN state' = None /\ old_info' = None
             ELSE SwapStored /\ old_info' = old_info ]_vars

\* a swap to the second profile with a snapshot held and mode_stats resolved
\* before
C16_Witness ==
  /\ snap = "none"
  /\ InLogs(WarnChangedSaves)
  /\ state /= None
  /\ state[1].prev_save = 2
  /\ state[1].mode_stats = 0
  /\ old_info /= None

\* the update before the step was a failed attachment attempt
PrevAttachFailed ==
  state = None /\ snap = "na" /\ cmds = << >> /\ ~crashed

\* the update of the step is an attachment attempt that fails
AttachFails == state = None /\ state' = None /\ ~crashed'

\* C17: an update without an adapter emits no timer command; "failed to
\* connect to Celeste" is emitted by a failed attachment attempt exactly
\* when the update before it was not a failed attempt too (the first update
\* after construction, or the first after an adapter was held), and by no
\* other update.
C17_WarnOnFirstFailedAttach ==
  [][ /\ state = None => cmds' = << >>
      /\ AttachFails => (InLogs(WarnNoConnection)' <=> ~PrevAttachFailed)
      /\ InLogs(WarnNoConnection)' => AttachFails ]_vars

\* the adapter has been dropped after 100 failures and the next attachment
\* attempt has failed
C17_Witness ==
  /\ InLogs(WarnNoConnection)
  /\ state = None
  /\ failed_reads = DisconnectThreshold
  /\ Len(detached) >= 1

\* the snapshot of the step is absent because a memory read has failed
ReadFailureTick ==
  state /= None /\ snap' = "none" /\ ~InLogs(WarnChangedSaves)'

C18_LookupClassAbsentNotFatal ==
  call.fn = "lookup_class" =>
    /\ ~crashed
    /\ ret.kind \in {"some", "none"}
    /\ ret.kind = "some" => ClassName(mem, ret.val) = Some(call.name)

\* C19: class_field_offset and class_static_fields never end the plugin:
\* a missing field, a class of another kind than Def, Gtd or Ginst, and a
\* class with no vtable in any domain all give an absent result.
C19_ReflectionRecoverable ==
  call.fn \in {"class_field_offset", "class_static_fields"} =>
    /\ ~crashed
    /\ ret.kind \in {"some", "none"}

\* a with its low bit set
TagSet(a) == a + 1 - (a % 2)

\* C22: instance_class(a) and instance_class(a | 1) read the same
\* addresses and return the same result, the class pointer read through a
\* with its low bit cleared.
C22_TagMasked ==
  call.fn = "instance_class" =>
    LET a == call.class
        even == a - (a % 2)
    IN
    /\ ret.kind = InstanceClass(mem, TagSet(a)).kind
    /\ ret.val = InstanceClass(mem, TagSet(a)).val
    /\ ret.reads = InstanceClassReads(mem, TagSet(a))
    /\ ret.reads[1] = even
    /\ ret.kind = "some" <=>
         (even \in DOMAIN mem.words
            /\ mem.words[even] \in DOMAIN mem.words)
    /\ ret.kind = "some" =>
         /\ ret.val = mem.words[mem.words[even]]
         /\ ret.reads = << even, mem.words[even] >>

\* the class of the Celeste object has been read through the untagged
\* address
C22_Witness ==
  /\ call.fn = "instance_class"
  /\ call.class = 95000
  /\ ret.kind = "some"
  /\ ret.val = 10000

\* the domain slots of class c that end the scan of class_static_fields: an
\* unmapped slot or a nonzero vtable
StopSlots(m, c) ==
  LET runtime_info == m.words[c + ClassRuntimeInfoOffset] IN
  { i \in 0..m.words[runtime_info] :
      \/ runtime_info + 8 + 8 * i \notin DOMAIN m.words
      \/ m.words[runtime_info + 8 + 8 * i] /= 0 }

\* the header of class c that class_static_fields reads is mapped
StaticHeaderMapped(m, c) ==
  /\ c + ClassVtableSizeOffset \in DOMAIN m.words
  /\ c + ClassRuntimeInfoOffset \in DOMAIN m.words
  /\ m.words[c + ClassRuntimeInfoOffset] \in DOMAIN m.words

\* C23: class_static_fields scans the slots runtime_info + 8 + 8*i for
\* i = 0..max_domains inclusive in increasing order and returns the word at
\* vtable + 64 + 8*vtable_size of the first nonzero vtable; later vtables do
\* not matter.
C23_FirstLoadedDomain ==
  (/\ call.fn = "class_static_fields"
   /\ StaticHeaderMapped(mem, call.class)
   /\ StopSlots(mem, call.class) /= {}) =>
    LET c == call.class
        runtime_info == mem.words[c + ClassRuntimeInfoOffset]
        first == CHOOSE i \in StopSlots(mem, c) :
                   \A j \in StopSlots(mem, c) : i <= j
        slot == runtime_info + 8 + 8 * first
    IN
    IF slot \notin DOMAIN mem.words THEN ret = RNone
    ELSE
      LET area == mem.words[slot] + 64 + 8 * mem.words[c + ClassVtableSizeOffset]
      IN
      ret = IF area \in DOMAIN mem.words THEN RSome(mem.words[area])
            ELSE RNone

\* two domains have a vtable of Celeste; the static data of the first one
\* is returned
C23_Witness ==
  /\ call.fn = "class_static_fields"
  /\ call.class = 10000
  /\ mem.words[70008] /= 0
  /\ mem.words[70016] /= 0
  /\ ret = RSome(91000)

\* the indices of the fields named n in the field array of class d
FieldsNamed(m, d, n) ==
  LET fields_addr == m.words[d + ClassFieldsOffset] IN
  { i \in 0..(m.words[d + ClassFieldCountOffset] - 1) :
      m.strs[m.words[fields_addr + FieldSize * i + FieldNameOffset]] = n }

\* d is a generic definition with a readable field array that holds a field
\* named n
PresentOn(m, d, n) ==
  /\ d + ClassKindOffset \in DOMAIN m.words
  /\ m.words[d + ClassKindOffset] % 8 \in {Def, Gtd}
  /\ d + ClassFieldCountOffset \in DOMAIN m.words
  /\ d + ClassFieldsOffset \in DOMAIN m.words
  /\ FieldsReadable(m, m.words[d + ClassFieldsOffset],
                    m.words[d + ClassFieldCountOffset])
  /\ \A i \in 0..(m.words[d + ClassFieldCountOffset] - 1) :
       m.words[m.words[d + ClassFieldsOffset] + FieldSize * i
                 + FieldNameOffset] \in DOMAIN m.strs
  /\ FieldsNamed(m, d, n) /= {}

\* C24: for a class G of kind Ginst whose generic definition D is the class
\* at *(*(G + 0xe0)), class_field_offset(G, n) is the offset n has on D, for
\* every n present on D; the field array of G itself is not consulted.
C24_GenericFollowsDefinition ==
  (/\ call.fn = "class_field_offset"
   /\ ClassKind(mem, call.class) = Some(Ginst)
   /\ call.class + ClassGenericOffset \in DOMAIN mem.words
   /\ mem.words[call.class + ClassGenericOffset] \in DOMAIN mem.words) =>
    LET d == mem.words[mem.words[call.class + ClassGenericOffset]] IN
    PresentOn(mem, d, call.name) =>
      LET first == CHOOSE i \in FieldsNamed(mem, d, call.name) :
                     \A j \in FieldsNamed(mem, d, call.name) : i <= j
      IN
      /\ ret = RSome(mem.words[mem.words[d + ClassFieldsOffset]
                                 + FieldSize * first + FieldOffsetOffset])
      /\ ret = ClassFieldOffset(mem, d, call.name, MaxGeneric)

\* Instance is at 99 in the field array of the instantiation and at 8 on
\* its definition
C24_Witness ==
  /\ call = [fn |-> "class_field_offset", class |-> 30000, name |-> "Instance"]
  /\ mem.words[62024] = 99
  /\ ret = RSome(8)

\* the UTF-16 code units of a sequence of chars
RECURSIVE EncodeUtf16(_)
EncodeUtf16(chars) ==
  IF chars = << >> THEN << >>
  ELSE
    LET c == Head(chars) IN
    (IF c < 65536 THEN << c >>
     ELSE << 55296 + ((c - 65536) \div 1024), 56320 + ((c - 65536) % 1024) >>)
      \o EncodeUtf16(Tail(chars))

\* the L code units of the managed string at instance a (length at +16,
\* units from +20 on), as they are in memory
StoredUnits(m, a) ==
  [i \in 1..m.words[a + 16] |->
     m.bytes[a + 20 + 2 * (i - 1)] + 256 * m.bytes[a + 20 + 2 * (i - 1) + 1]]

\* unit i of units is a surrogate without its partner
Unpaired(units, i) ==
  \/ /\ IsHighSurrogate(units[i])
     /\ ~(i < Len(units) /\ IsLowSurrogate(units[i + 1]))
  \/ /\ IsLowSurrogate(units[i])
     /\ ~(i > 1 /\ IsHighSurrogate(units[i - 1]))

\* a managed string has been read
StringRead ==
  call.fn = "read_boxed_string" /\ call.class = 96000 /\ ret.kind = "some"

\* C25 as stated: read_boxed_string reads exactly 2*L bytes from the
\* m_firstChar field and returns a string whose UTF-16 code units are those
\* L code units, whatever they are.
C25_StringRoundTrip ==
  StringRead =>
    /\ ret.len = 2 * mem.words[96016]
    /\ EncodeUtf16(ret.val) = StoredUnits(mem, 96000)

\* C25 amended: read_boxed_string reads exactly 2*L bytes from the
\* m_firstChar field and returns a string whose UTF-16 code units are those
\* L code units with every unpaired surrogate replaced by U+FFFD; for
\* well-formed UTF-16 they are the L code units themselves.
C25_StringRoundTripLossy ==
  StringRead =>
    LET units == StoredUnits(mem, 96000) IN
    /\ ret.len = 2 * mem.words[96016]
    /\ EncodeUtf16(ret.val) =
         [i \in 1..Len(units) |->
            IF Unpaired(units, i) THEN ReplacementChar ELSE units[i]]

\* a surrogate pair has come back as the same two code units
C25_Witness ==
  /\ StringRead
  /\ StoredUnits(mem, 96000) = << 55357, 56832 >>
  /\ Len(ret.val) = 1
  /\ EncodeUtf16(ret.val) = << 55357, 56832 >>

\* m is the memory of a process whose domain list is readable and whose
\* first domain is missing or is not named "Celeste.exe"
WrongProcess(m) ==
  /\ DomainListAddr \in DOMAIN m.words
  /\ m.words[DomainListAddr] \in DOMAIN m.words
  /\ m.words[DomainListAddr] + 8 \in DOMAIN m.words
  /\ LET first == m.words[m.words[DomainListAddr]] IN
     \/ first = 0
     \/ /\ first + 216 \in DOMAIN m.words
        /\ m.words[first + 216] \in DOMAIN m.strs
        /\ m.strs[m.words[first + 216]] /= "Celeste.exe"

\* C21: when attach succeeds but the first domain pointer is 0 or the first
\* domain is not named "Celeste.exe", no adapter is stored, the handle is
\* detached within the same update, nothing is emitted and the plugin goes
\* on as not attached.
C21_WrongProcessDropped ==
  [][ (state = None /\ attached' = attached + 1 /\ WrongProcess(mem')) =>
        /\ state' = None
        /\ ~crashed'
        /\ detached' = Append(detached, attached')
        /\ cmds' = << >>
        /\ UNCHANGED << old_info, current_split, failed_reads >> ]_vars

\* a process named other.exe has been attached and detached again
C21_Witness ==
  /\ WrongProcess(mem)
  /\ mem.words[mem.words[DomainListAddr]] /= 0
  /\ state = None
  /\ ~crashed
  /\ attached = 1
  /\ detached = << 1 >>

\* handles attached and not yet detached
LiveHandles == attached - Len(detached)

\* C27: the plugin holds at most one adapter and at most one handle that is
\* attached and not detached, the adapter's when there is one; attach is
\* called only in an update that starts without an adapter, once.
C27_SingleAdapter ==
  /\ [](/\ LiveHandles \in {0, 1}
        /\ Len(state) <= 1
        /\ state /= None =>
             /\ LiveHandles = 1
             /\ \A i \in 1..Len(detached) : detached[i] /= state[1].proc)
  /\ [][ attached' /= attached =>
           (state = None /\ attached' = attached + 1) ]_vars

\* a second process is attached after the first was given back
C27_Witness ==
  /\ state /= None
  /\ state[1].proc = 2
  /\ detached = << 1 >>

\* C28: when the first domain is named "Celeste.exe" the classes of the
\* adapter are looked up in the class cache of the second domain-list entry
\* if it is nonzero, of the first otherwise, the cache being at
\* *(*(domain + 0xd0) + 0x60) + 1216.
C28_DomainSelection ==
  [][ (state = None /\ state' /= None) =>
        LET w == mem'.words
            list == w[DomainListAddr]
            first == w[list]
            second == w[list + 8]
            domain == IF second /= 0 THEN second ELSE first
            cache == w[w[domain + 208] + 96] + 1216
            celeste == LookupClass(mem', cache, "Celeste")
        IN
        /\ mem'.strs[w[first + 216]] = "Celeste.exe"
        /\ celeste.kind = "some"
        /\ ClassName(mem', celeste.val) = Some("Celeste")
        /\ RSome(state'[1].instance) =
             StaticField(mem', celeste.val, "Instance")
        /\ RSome(state'[1].save_data_class) =
             LookupClass(mem', cache, "SaveData")
        /\ RSome(state'[1].engine_class) = LookupClass(mem', cache, "Engine")
        /\ RSome(state'[1].level_class) = LookupClass(mem', cache, "Level")
        /\ ClassName(mem', state'[1].save_data_class) = Some("SaveData")
        /\ ClassName(mem', state'[1].engine_class) = Some("Engine")
        /\ ClassName(mem', state'[1].level_class) = Some("Level") ]_vars

\* the adapter holds the classes of the second domain
C28_Witness ==
  /\ state /= None
  /\ mem.words[mem.words[DomainListAddr] + 8] = 3500
  /\ state[1].save_data_class = 21000
  /\ state[1].level_class = 23000

\* ------------------------------------------------------------------------
\* mode_stats and the names resolved in a snapshot
\* ------------------------------------------------------------------------

\* a call of Celeste::update has returned
Updated == call.fn = "update"

\* the tick found a nonzero save address equal to prev_save
SameSave ==
  /\ call.tick.fault \notin {"read_early", "panic"}
  /\ call.tick.save /= 0
  /\ call.tick.save = call.before.prev_save

\* the tick got past the read of TotalDeaths (line 133)
DeathsRead == SameSave /\ call.tick.fault /= "read_deaths"

\* mode_stats went from 0 to an address in this tick
ResolvedNow == call.before.mode_stats = 0 /\ state[1].mode_stats /= 0

\* the three rules of lines 134..152 for the ticks in pre, and the checkpoint
\* of the snapshot
ModeStatsRules(pre) ==
  /\ (pre /\ call.tick.chapter = -1) => state[1].mode_stats = 0
  /\ state[1].mode_stats /= call.before.mode_stats /\ state[1].mode_stats /= 0
       => /\ SameSave
          /\ call.tick.chapter /= -1
          /\ call.before.mode_stats = 0
          /\ state[1].mode_stats = call.tick.mode_obj
  /\ (pre /\ call.before.mode_stats = 0
          /\ call.tick.areas_size /= AreasCount)
       => state[1].mode_stats = 0
  /\ (SameSave /\ ret.kind = "some")
       => ret.val[1].checkpoint =
            IF state[1].mode_stats /= 0
              THEN CountThrough(call.tick, state[1].mode_stats) ELSE 0

\* C29 as stated: with a nonzero, unchanged save address mode_stats is 0
\* after every tick whose chapter is -1; it is resolved only in a tick whose
\* chapter is not -1 and that began with mode_stats 0; it stays 0 when the
\* Areas list does not hold 11 entries; the checkpoint of the snapshot is
\* the count read through mode_stats when that is nonzero and 0 otherwise.
C29_ModeStatsCaching == Updated => ModeStatsRules(SameSave)

\* C29 amended: the same for the ticks in which the read of TotalDeaths
\* succeeded; a tick that fails there returns before the chapter is tested
\* and leaves mode_stats as it was.
C29_ModeStatsCachingAfterDeaths == Updated => ModeStatsRules(DeathsRead)

\* mode_stats resolved in one tick and cleared in a later one at chapter -1
C29_Witness ==
  /\ Updated
  /\ DeathsRead
  /\ call.tick.chapter = -1
  /\ call.before.mode_stats /= 0
  /\ state[1].mode_stats = 0

\* C30 as stated: no call of Celeste::update resolves a field by its name.
C30_NoNameLookup == Updated => ret.names = << >>

\* ------------------------------------------------------------------------
\* The width of max_domains
\* ------------------------------------------------------------------------

\* the image with the four bytes behind max_domains of class c zeroed
LowHalfOnly(m, c) ==
  IF c + ClassRuntimeInfoOffset \in DOMAIN m.words
    THEN [m EXCEPT !.words = (m.words[c + ClassRuntimeInfoOffset] + 4 :> 0)
                               @@ @]
    ELSE m

\* C31 as stated: class_static_fields returns what it returns when the four
\* bytes at runtime_info + 4 are zero; these bytes change neither how many
\* slots are scanned nor which one is returned.
C31_ScanBoundIs32Bit ==
  call.fn = "class_static_fields"
    => ret = ClassStaticFields(LowHalfOnly(mem, call.class), call.class)

\* ------------------------------------------------------------------------
\* Split accounting
\* ------------------------------------------------------------------------

\* position of the last command op in c (0 when there is none)
LastOp(c, op) ==
  IF HasOp(c, op) THEN CHOOSE i \in 1..Len(c) :
                         c[i].op = op /\ \A j \in (i + 1)..Len(c) : c[j].op /= op
  ELSE 0

\* number of commands op in c behind position from
CountOpAfter(c, op, from) ==
  Cardinality({ i \in (from + 1)..Len(c) : c[i].op = op })

\* number of steps of Split::next from Prologue to s
StepsFromPrologue(s) == SplitPos(s) - SplitPos("Prologue")

\* C32: every update emits at most one split. The splits emitted since the
\* most recent start are as many as the steps from Prologue to current_split:
\* an update that emits start leaves current_split as many steps behind
\* Prologue as it emits splits after the start, and any other update moves
\* current_split by as many steps as it emits splits. current_split is Start
\* exactly as long as no start has been emitted, so an update at Start
\* without a start emits no split.
C32_SplitAccounting ==
  [][ /\ CountOpAfter(cmds', "split", 0) <= 1
      /\ IF HasOp(cmds', "start")
           THEN StepsFromPrologue(current_split')
                  = CountOpAfter(cmds', "split", LastOp(cmds', "start"))
           ELSE /\ SplitPos(current_split')
                     = SplitPos(current_split) + CountOpAfter(cmds', "split", 0)
                /\ current_split = "Start" => ~HasOp(cmds', "split")
      /\ current_split' = "Start" <=>
           (current_split = "Start" /\ ~HasOp(cmds', "start")) ]_vars

\* the tenth split of a run has been emitted
C32_Witness == current_split = "End" /\ HasOp(cmds, "split")

\* ------------------------------------------------------------------------
\* The first snapshot of a session
\* ------------------------------------------------------------------------

\* the snapshots Celeste::update can return to the adapter held
SnapshotsNow(inputs) ==
  { CelesteUpdate(state[1], m).info : m \in inputs } \ { None }

\* C33: an update that holds an adapter and no previous snapshot and gets a
\* snapshot stores it as the previous snapshot, emits no timer command and
\* no variable and leaves current_split as it is, whatever the snapshot
\* shows.
C33_FirstSnapshotStored ==
  [][ (state /= None /\ old_info = None /\ snap' = "some")
        => /\ cmds' = << >>
           /\ current_split' = current_split
           /\ old_info' \in SnapshotsNow(TickInputs) ]_vars

\* a snapshot inside the reset window of a chapter under way is held and no
\* run has been started
C33_Witness ==
  /\ snap = "some"
  /\ cmds = << >>
  /\ current_split = "Start"
  /\ old_info /= None
  /\ old_info[1].chapter_started
  /\ old_info[1].chapter = 0
  /\ old_info[1].room = "0"
  /\ FileTimeMs(old_info[1]) < ResetWindowMs

\* ------------------------------------------------------------------------
\* The drop of the adapter and the reattachment
\* ------------------------------------------------------------------------

C35_PauseAlternates ==
  [][ LET held == old_info /= None /\ old_info' /= None
          rose == /\ held
                  /\ ~old_info[1].chapter_started
                  /\ old_info'[1].chapter_started
          fell == /\ held
                  /\ old_info[1].chapter_started
                  /\ ~old_info'[1].chapter_started
      IN
      /\ CountOpAfter(cmds', "unpause", 0) = (IF rose THEN 1 ELSE 0)
      /\ CountOpAfter(cmds', "pause", 0) = (IF fell THEN 1 ELSE 0) ]_vars

\* a chapter left: pause emitted against a previous snapshot under way
C35_Witness ==
  /\ HasOp(cmds, "pause")
  /\ old_info /= None
  /\ ~old_info[1].chapter_started

\* ------------------------------------------------------------------------
\* The checkpoint of a snapshot and the chapter it shows
\* ------------------------------------------------------------------------

\* the Areas list of the tick leads to a mode-stats object for the chapter
\* and mode shown
OwnModeStats ==
  /\ call.tick.chapter /= -1
  /\ call.tick.areas_size = AreasCount
  /\ call.tick.items /= 0
  /\ call.tick.mode_obj /= 0

\* C36 as stated: the checkpoint of every snapshot produced with a save is
\* the checkpoint count of the mode-stats object of the chapter and mode the
\* snapshot shows.
C36_CheckpointOfOwnChapter ==
  (Updated /\ SameSave /\ ret.kind = "some" /\ OwnModeStats)
    => ret.val[1].checkpoint = call.tick.count

\* ------------------------------------------------------------------------
\* Termination of the walks
\* ------------------------------------------------------------------------

\* the chain from class on, linked through + 0xf8, reaches 0 within k classes
RECURSIVE ChainEnds(_, _, _)
ChainEnds(m, class, k) ==
  \/ class = 0
  \/ /\ k > 0
     /\ class + ClassNextOffset \in DOMAIN m.words
     /\ ChainEnds(m, m.words[class + ClassNextOffset], k - 1)

\* the classes of a chain that ends, in order
RECURSIVE ChainClasses(_, _)
ChainClasses(m, class) ==
  IF class = 0 THEN << >>
  ELSE << class >> \o ChainClasses(m, m.words[class + ClassNextOffset])

\* the classes of the buckets from bucket on, bucket by bucket
RECURSIVE CacheClasses(_, _, _, _)
CacheClasses(m, cache_table, table_size, bucket) ==
  IF bucket >= table_size THEN << >>
  ELSE ChainClasses(m, m.words[cache_table + 8 * bucket])
         \o CacheClasses(m, cache_table, table_size, bucket + 1)

\* the table of the cache is mapped and every bucket chain ends in 0
CacheChainsEnd(m, cache) ==
  /\ cache + CacheTableOffset \in DOMAIN m.words
  /\ cache + CacheSizeOffset \in DOMAIN m.words
  /\ \A bucket \in 0..(m.words[cache + CacheSizeOffset] - 1) :
       LET slot == m.words[cache + CacheTableOffset] + 8 * bucket IN
       /\ slot \in DOMAIN m.words
       /\ ChainEnds(m, m.words[slot], MaxChain)

\* the chain of instantiations from class on, through + 0xe0, reaches a Def
\* or Gtd class within k steps
RECURSIVE GenericEnds(_, _, _)
GenericEnds(m, class, k) ==
  /\ class + ClassKindOffset \in DOMAIN m.words
  /\ \/ m.words[class + ClassKindOffset] % 8 \in {Def, Gtd}
     \/ /\ m.words[class + ClassKindOffset] % 8 = Ginst
        /\ k > 0
        /\ class + ClassGenericOffset \in DOMAIN m.words
        /\ m.words[class + ClassGenericOffset] \in DOMAIN m.words
        /\ GenericEnds(m, m.words[m.words[class + ClassGenericOffset]], k - 1)

\* name is the name of class c
Named(m, c, name) == ClassName(m, c) = Some(name)

\* C37: when every bucket chain of the cache ends in 0, lookup_class ends
\* (with a class, an absent result or its panic), and the class it returns
\* is the first one, bucket by bucket and along each chain, that bears the
\* name, no class behind it being looked at; when the chain of
\* instantiations of a class reaches a Def or Gtd class, class_field_offset
\* ends.
C37_WalksTerminate ==
  /\ (call.fn = "lookup_class" /\ CacheChainsEnd(mem, call.class))
       => /\ ret.kind \in {"some", "none", "panic"}
          /\ LET all == CacheClasses(mem,
                                     mem.words[call.class + CacheTableOffset],
                                     mem.words[call.class + CacheSizeOffset],
                                     0)
             IN
             \A i \in 1..Len(all) :
               (/\ Named(mem, all[i], call.name)
                /\ \A j \in 1..(i - 1) :
                     /\ ClassName(mem, all[j]) /= None
                     /\ ~Named(mem, all[j], call.name))
                 => ret = RSome(all[i])
  /\ (call.fn = "class_field_offset"
        /\ GenericEnds(mem, call.class, MaxGeneric))
       => ret.kind \in {"some", "none", "panic"}

\* SaveData found at the head of the second bucket after the chain of the
\* first, two classes long, has been walked to its end
C37_Witness ==
  /\ call.fn = "lookup_class"
  /\ call.name = "SaveData"
  /\ CacheChainsEnd(mem, call.class)
  /\ mem.words[10000 + ClassNextOffset] = 30000
  /\ mem.words[30000 + ClassNextOffset] = 0
  /\ ret = RSome(20000)

\* a walk along a chain that never reaches 0 has not ended
CycleWalked ==
  /\ call.fn = "lookup_class"
  /\ ~CacheChainsEnd(mem, call.class)
  /\ ret.kind = "diverge"

====
